---- MODULE Spec2Model ----
(***************************************************************************)
(* WORDGAMI (letterslide/src/App.tsx): the free-swap, any-row-order tile   *)
(* puzzle.  The module models the board generator, the duplicate-safe mark *)
(* engine, the move validator, the React state of the App component with   *)
(* its effects, and the score meter.                                       *)
(*                                                                         *)
(* Conventions.                                                            *)
(*  - Cells are the 0-based linear indices of the source; a board is a     *)
(*    TLA+ sequence, so cell i is board[i + 1].                            *)
(*  - A word is a sequence of one-letter strings.                          *)
(*  - null is modelled by Null (-1) for the numeric state that may be null.*)
(*  - The meter is a real number in the source and DECAY_PER_SEC is 1.5;   *)
(*    every score quantity is kept here in HALF POINTS (value * 2), so 200 *)
(*    is the source's 100 and the arithmetic is exact on integers.         *)
(*  - State updates of one event are batched (React 18): an action is the  *)
(*    handler followed by the effects it triggers, run to quiescence.      *)
(***************************************************************************)
EXTENDS Integers, Sequences, FiniteSets, TLC

VARIABLES
  size,           \* useState(5)                      board is size x size
  board,          \* useState<Tile[]>                 sequence of [id, char]
  rowSecrets,     \* useState<RowSecret[]>            sequence of words
  lockedRows,     \* useState<Set<number>>
  moves,          \* useState(0)
  seconds,        \* useState(0)
  running,        \* useState(false)
  won,            \* useState(false)
  lost,           \* useState(false)
  rowCleared,     \* useState<number | null>          row awaiting its lock
  selectedIndex,  \* useState<number | null>
  score,          \* useState(SCORE_START)            in half points
  rewardedGreen,  \* useRef<Set<number>>              tile ids already credited
  interval,       \* the decay interval of the effect at lines 280-287:
                  \*   "on" while window.setInterval is pending, else "none"
  greenCredits,   \* history: tile id -> number of green bonuses this session
  lostGreen,      \* history: rewarded ids that were not green after a later swap
  gen,            \* the frame of makeCampaignBoard, for the generator
                  \*   specification: [pc, s, tries, pref]
  probe,          \* the locals of the mark-engine tests (lines 644-677):
                  \*   [called, marks, gained], the results of the last calls
                  \*   of computeMarks and newlyGreenIDs on the current board
  timeout,        \* the pending window.setTimeout of the celebration effect
                  \*   (lines 315-324): the closure [row, size] of the
                  \*   render that created it, NoTimeout if none is pending
  carried,        \* history: [atCall, alive], the timers ("interval",
                  \*   "timeout") that were pending when startGame was last
                  \*   called and those of them still pending; kept until
                  \*   the next event after that call
  mode,           \* sliding variant (src/unnamed/part_000, line 348):
                  \*   useState<Mode>  "easy" | "hard" | "super"
  secret,         \* sliding variant (line 349): useState("")  the word
  guess           \* sliding variant (line 359): useState("")  letters entered

vars == << size, board, rowSecrets, lockedRows, moves, seconds, running, won,
           lost, rowCleared, selectedIndex, score, rewardedGreen, interval,
           greenCredits, lostGreen, gen, probe, timeout, carried,
           mode, secret, guess >>

Null == -1

\* The sliding variant's component (src/unnamed/part_000) is a separate
\* program: under the specifications of the campaign game its state keeps
\* the values of its useState initialisers (lines 348-359).
SlideAbsent ==
  /\ mode = "super"
  /\ secret = << >>
  /\ guess = << >>

\* ---------- Tunables (scoring / meter), lines 27-32, in half points: the
\* source's values are 100, 100, 1.5, 2, 5 and 5, and DECAY_PER_SEC = 1.5
\* makes the score a multiple of one half
SCORE_START == 200
SCORE_CAP == 200
DECAY_PER_SEC == 3
MOVE_PENALTY == 4
GREEN_BONUS == 10
ROW_SOLVED_BONUS_PER_SIZE == 10

\* ---------- Word list
WORDS3 ==
  <<
     <<"C","A","T">>, <<"D","O","G">>, <<"S","U","N">>, <<"M","A","P">>, <<"B","O","X">>,
     <<"H","A","T">>, <<"C","A","R">>, <<"B","U","S">>, <<"A","N","T">>, <<"B","E","E">>,
     <<"F","O","X">>, <<"O","W","L">>, <<"B","A","T">>, <<"J","A","R">>, <<"K","E","Y">>,
     <<"L","I","P">>, <<"M","U","G">>, <<"P","E","N">>, <<"R","U","G">>, <<"E","G","G">>
  >>

WORDS4 ==
  <<
     <<"C","O","D","E">>, <<"G","A","M","E">>, <<"P","L","A","Y">>, <<"W","O","R","D">>,
     <<"M","A","T","H">>, <<"T","R","E","E">>, <<"L","E","A","F">>, <<"F","I","S","H">>,
     <<"B","I","R","D">>, <<"L","I","O","N">>, <<"W","O","L","F">>, <<"F","I","R","E">>,
     <<"W","I","N","D">>, <<"S","N","O","W">>, <<"R","A","I","N">>, <<"S","T","A","R">>,
     <<"M","O","O","N">>, <<"S","H","I","P">>, <<"R","O","A","D">>, <<"B","O","O","K">>,
     <<"D","O","O","R">>, <<"M","I","L","K">>, <<"B","R","E","A","D">>, <<"C","O","R","N">>
  >>

WORDS5 ==
  <<
     <<"A","P","P","L","E">>, <<"L","E","V","E","L">>, <<"Q","U","E","S","T">>,
     <<"T","R","A","I","L">>, <<"S","H","I","F","T">>, <<"A","B","O","U","T">>,
     <<"A","F","T","E","R">>, <<"A","G","A","I","N">>, <<"O","T","H","E","R">>,
     <<"H","E","A","R","T">>, <<"P","L","A","N","T">>, <<"G","R","A","P","E">>,
     <<"M","A","N","G","O">>, <<"T","I","G","E","R">>, <<"R","I","V","E","R">>,
     <<"M","U","S","I","C">>, <<"L","I","G","H","T">>, <<"S","O","U","N","D">>,
     <<"B","R","E","A","D">>, <<"W","A","T","E","R">>, <<"E","A","R","T","H">>,
     <<"W","O","R","L","D">>, <<"S","M","I","L","E">>, <<"C","H","A","I","R">>,
     <<"T","A","B","L","E">>, <<"P","O","I","N","T">>, <<"R","I","G","H","T">>,
     <<"U","N","D","E","R">>, <<"G","R","E","E","N">>, <<"B","R","O","W","N">>,
     <<"B","L","A","C","K">>, <<"W","H","I","T","E">>, <<"S","T","O","N","E">>,
     <<"F","I","E","L","D">>, <<"H","O","U","S","E">>, <<"B","R","I","C","K">>,
     <<"P","L","A","N","E">>, <<"T","R","A","I","N">>, <<"C","L","O","U","D">>,
     <<"S","T","O","R","M">>, <<"S","H","I","N","E">>, <<"Q","U","I","E","T">>,
     <<"N","O","I","S","E">>, <<"H","A","P","P","Y">>, <<"T","I","M","E","S">>,
     <<"Q","U","I","C","K">>, <<"S","W","E","E","T">>, <<"S","H","A","R","P">>,
     <<"R","O","U","N","D">>
  >>

WORDS6 ==
  <<
     <<"F","L","O","W","E","R">>, <<"P","U","Z","Z","L","E">>, <<"B","I","N","A","R","Y">>,
     <<"M","A","R","K","E","T">>, <<"B","R","I","D","G","E">>, <<"O","R","A","N","G","E">>,
     <<"P","U","R","P","L","E">>, <<"Y","E","L","L","O","W">>, <<"S","I","L","V","E","R">>,
     <<"N","A","T","U","R","E">>, <<"R","I","V","E","R","S">>, <<"G","A","L","A","X","Y">>,
     <<"P","L","A","N","E","T">>, <<"S","T","R","E","A","M">>, <<"T","H","I","N","G","S">>,
     <<"L","E","T","T","E","R">>, <<"S","P","I","R","I","T">>, <<"W","I","N","D","O","W">>,
     <<"G","A","R","D","E","N">>, <<"S","C","H","O","O","L">>, <<"F","R","I","E","N","D">>,
     <<"A","N","I","M","A","L">>, <<"P","E","O","P","L","E">>, <<"F","U","T","U","R","E">>,
     <<"P","E","N","C","I","L">>, <<"N","U","M","B","E","R">>, <<"P","O","C","K","E","T">>,
     <<"C","A","M","E","R","A">>, <<"P","I","L","L","O","W">>, <<"M","A","R","K","E","R">>,
     <<"B","U","T","T","O","N">>, <<"C","H","E","R","R","Y">>, <<"B","A","N","A","N","A">>,
     <<"B","O","T","T","L","E">>, <<"F","O","L","L","O","W">>, <<"S","P","R","I","N","G">>,
     <<"S","U","M","M","E","R">>, <<"A","U","T","U","M","N">>, <<"W","I","N","T","E","R">>,
     <<"C","A","N","D","L","E">>, <<"C","R","A","Y","O","N">>, <<"D","A","N","C","E","R">>,
     <<"E","N","G","I","N","E">>, <<"F","A","B","R","I","C">>, <<"G","O","B","L","E","T">>,
     <<"H","A","N","D","L","E">>, <<"I","N","S","E","C","T">>
  >>

WORDS(n) ==
  CASE n = 3 -> WORDS3
    [] n = 4 -> WORDS4
    [] n = 5 -> WORDS5
    [] n = 6 -> WORDS6
    [] OTHER -> << >>

Letters ==
  {"A","B","C","D","E","F","G","H","I","J","K","L","M",
   "N","O","P","Q","R","S","T","U","V","W","X","Y","Z"}

\* ---------- Helpers
Max(a, b) == IF a >= b THEN a ELSE b
Min(a, b) == IF a <= b THEN a ELSE b

idx(r, c, sz) == r * sz + c
rc(i, sz) == [r |-> i \div sz, c |-> i % sz]
\* faulty variant of swapArr: a[i] is overwritten before it is saved
swapArrNoTemp(a, i, j) == [a EXCEPT ![i + 1] = a[j + 1]]

\* faulty variant of swapArr: the characters are exchanged, the ids stay
swapArrCharsOnly(a, i, j) ==
  [a EXCEPT ![i + 1] = [@ EXCEPT !.char = a[j + 1].char],
            ![j + 1] = [@ EXCEPT !.char = a[i + 1].char]]

swapArr(a, i, j) == [a EXCEPT ![i + 1] = a[j + 1], ![j + 1] = a[i + 1]]

rowString(b, sz, r) == [c \in 1..sz |-> b[idx(r, c - 1, sz) + 1].char]

\* String.prototype.toUpperCase on one character
LowerLetters ==
  << "a","b","c","d","e","f","g","h","i","j","k","l","m",
     "n","o","p","q","r","s","t","u","v","w","x","y","z" >>
UpperLetters ==
  << "A","B","C","D","E","F","G","H","I","J","K","L","M",
     "N","O","P","Q","R","S","T","U","V","W","X","Y","Z" >>
toUpperChar(ch) ==
  IF \E k \in 1..26 : LowerLetters[k] = ch
    THEN UpperLetters[CHOOSE k \in 1..26 : LowerLetters[k] = ch]
    ELSE ch
toUpperCase(w) == [k \in 1..Len(w) |-> toUpperChar(w[k])]

\* "A".repeat(size)
repeatA(sz) == [k \in 1..sz |-> "A"]

\* Array.prototype.includes / indexOf (1-based here, 0 when absent)
includes(ws, w) == \E k \in 1..Len(ws) : ws[k] = w
indexOf(ws, w) ==
  IF includes(ws, w) THEN CHOOSE k \in 1..Len(ws) :
                            ws[k] = w /\ \A j \in 1..(k - 1) : ws[j] # w
                     ELSE 0

\* Array.from(new Set(list)): first occurrences, in order
RECURSIVE uniqueFrom(_, _)
uniqueFrom(ws, k) ==
  IF k > Len(ws) THEN << >>
  ELSE IF \E j \in 1..(k - 1) : ws[j] = ws[k]
         THEN uniqueFrom(ws, k + 1)
         ELSE << ws[k] >> \o uniqueFrom(ws, k + 1)
unique(ws) == uniqueFrom(ws, 1)

\* poolAll.splice(k, 1)
splice1(ws, k) == SubSeq(ws, 1, k - 1) \o SubSeq(ws, k + 1, Len(ws))

\* pickWord(size, preferred?); rnd is the value of rand(pool.length).
\* An absent or empty preferred word is << >> (falsy in the source).
wordPool(sz) == IF WORDS(sz) # << >> THEN WORDS(sz) ELSE << repeatA(sz) >>

validWord(up, sz) ==
  up # << >> /\ Len(up) = sz /\ \A k \in 1..Len(up) : up[k] \in Letters

pickFrom(pool, rnd) == pool[(rnd % Len(pool)) + 1]

pickWordAsTyped(sz, preferred, rnd) ==
  IF validWord(toUpperCase(preferred), sz)
    THEN preferred
    ELSE pickFrom(wordPool(sz), rnd)

pickWord(sz, preferred, rnd) ==
  IF validWord(toUpperCase(preferred), sz)
    THEN toUpperCase(preferred)
    ELSE pickFrom(wordPool(sz), rnd)

\* chooseCampaignWords(size, preferredFirst?).  The random outcomes are
\*   rnd.first : rand(pool.length) inside pickWord,
\*   rnd.pops  : the positions (1-based, in poolAll after the removal of the
\*               first word) of the words the shuffle brings to the end of
\*               poolAll, in the order pop() returns them: any sequence
\*               without repetition is an outcome of the Fisher-Yates loop.

\* lines 79-80: poolAll without the first occurrence of first
removeWord(poolAll, first) ==
  IF indexOf(poolAll, first) >= 1 THEN splice1(poolAll, indexOf(poolAll, first))
                                  ELSE poolAll

\* lines 83-86: words.push(poolAll.pop()) while words.length < size
popWords(sz, words, poolAll, pops) ==
  words \o [k \in 1..Min(sz - Len(words), Min(Len(poolAll), Len(pops))) |->
              poolAll[pops[k]]]

\* lines 89-95, the fallback loop: with an empty list only "A".repeat(size)
\* can be drawn, and it is pushed once; with a non-empty list every draw is
\* already in words when the pool was exhausted
fallbackWords(sz, words) ==
  IF Len(words) < sz /\ WORDS(sz) = << >> /\ ~includes(words, repeatA(sz))
    THEN Append(words, repeatA(sz)) ELSE words

\* words.slice(0, size)
slice0(words, sz) == SubSeq(words, 1, Min(sz, Len(words)))

\* lines 76-96 once first is picked
wordsAfterFirst(sz, first, poolAll, pops) ==
  slice0(fallbackWords(sz, popWords(sz, << first >>,
                                    removeWord(poolAll, first), pops)), sz)

chooseCampaignWords(sz, preferredFirst, rnd) ==
  IF preferredFirst # << >>
    THEN wordsAfterFirst(sz, pickWord(sz, preferredFirst, rnd.first),
                         unique(WORDS(sz)), rnd.pops)
    ELSE slice0(fallbackWords(sz, popWords(sz, << >>, unique(WORDS(sz)),
                                           rnd.pops)), sz)

\* Lines 101-105: tiles pushed row by row, id = r*size + c + 1, char = w[c];
\* layoutRows(sz, words, n) is the array after the first n rows
RECURSIVE layoutRows(_, _, _)
layoutRows(sz, words, n) ==
  IF n <= 0 THEN << >>
  ELSE layoutRows(sz, words, n - 1)
         \o [c \in 1..sz |-> [id |-> (n - 1) * sz + c, char |-> words[n][c]]]

layout(sz, words) == layoutRows(sz, words, sz)

\* neigh of shuffleByAdjSwaps, in the order the source pushes
neigh(a, sz) ==
  LET r == a \div sz
      c == a % sz
  IN  (IF r > 0 THEN << idx(r - 1, c, sz) >> ELSE << >>)
      \o (IF r < sz - 1 THEN << idx(r + 1, c, sz) >> ELSE << >>)
      \o (IF c > 0 THEN << a - 1 >> ELSE << >>)
      \o (IF c < sz - 1 THEN << a + 1 >> ELSE << >>)

\* one iteration of the loop of shuffleByAdjSwaps: a = rand(board.length),
\* b = neigh[rand(neigh.length)]
shuffleStep(b, sz, a, k) == swapArr(b, a, neigh(a, sz)[k + 1])

\* shuffleByAdjSwaps(board, size, steps) for the outcomes run[1..] of rand,
\* each << a, k >>
RECURSIVE shuffleByAdjSwaps(_, _, _)
shuffleByAdjSwaps(b, sz, run) ==
  IF run = << >> THEN b
  ELSE shuffleByAdjSwaps(shuffleStep(b, sz, run[1][1], run[1][2]), sz, Tail(run))

isAnyRowSolved(b, sz, words) ==
  \E r \in 0..(Len(words) - 1) : rowString(b, sz, r) = words[r + 1]

\* makeCampaignBoard(size, maybeWord?) as a function of the outcomes of rand:
\* rnd.first, rnd.pops (word choice), rnd.base (the swaps of the base shuffle
\* that do not cancel one another) and rnd.passes (one run per extra pass).
RECURSIVE retryLoop(_, _, _, _, _)
retryLoop(b, sz, words, passes, tries) ==
  IF isAnyRowSolved(b, sz, words) /\ tries < 50 /\ tries < Len(passes)
    THEN retryLoop(shuffleByAdjSwaps(b, sz, passes[tries + 1]), sz, words,
                   passes, tries + 1)
    ELSE b

boardOf(sz, words, rnd) ==
  retryLoop(shuffleByAdjSwaps(layout(sz, words), sz, rnd.base), sz, words,
            rnd.passes, 0)

campaignOf(sz, words, rnd) == [words |-> words, board |-> boardOf(sz, words, rnd)]

makeCampaignBoard(sz, maybeWord, rnd) ==
  campaignOf(sz, chooseCampaignWords(sz, maybeWord, rnd), rnd)

\* ---------- Duplicate-safe color evaluation
\* Priority: green > orange(row) > yellow(col) > gray.
\* A need table maps a row (or column) to a Record from the letters of its
\* target to a count; a letter the Record does not hold reads as 0 ("|| 0").
NoMark == "-"

rowNeedInit(sz, secrets) ==
  [r \in 0..(sz - 1) |->
     [ch \in {secrets[r + 1][k] : k \in 1..sz} |->
        Cardinality({k \in 1..sz : secrets[r + 1][k] = ch})]]

colNeedInit(sz, secrets) ==
  [c \in 0..(sz - 1) |->
     [ch \in {secrets[r][c + 1] : r \in 1..sz} |->
        Cardinality({r \in 1..sz : secrets[r][c + 1] = ch})]]

needOf(rec, ch) == IF ch \in DOMAIN rec THEN rec[ch] ELSE 0

\* pass 1 (lines 155-164), cells i = 0 .. total-1; st = [marks, rowNeed, colNeed]
RECURSIVE passGreen(_, _, _, _, _)
passGreen(b, sz, secrets, i, st) ==
  IF i >= sz * sz THEN st
  ELSE LET t == b[i + 1]
           p == rc(i, sz)
       IN  IF secrets[p.r + 1][p.c + 1] = t.char
             THEN passGreen(b, sz, secrets, i + 1,
                    [marks   |-> [st.marks EXCEPT ![t.id] = "g"],
                     rowNeed |-> [st.rowNeed EXCEPT ![p.r][t.char] = @ - 1],
                     colNeed |-> [st.colNeed EXCEPT ![p.c][t.char] = @ - 1]])
             ELSE passGreen(b, sz, secrets, i + 1, st)

\* faulty variant of pass 2: orange only while the row still needs two of the letter
RECURSIVE passOrangeStrict(_, _, _, _, _, _)
passOrangeStrict(b, sz, secrets, locked, k, st) ==
  IF k >= sz * sz THEN st
  ELSE LET r  == k \div sz
           c  == k % sz
           t  == b[idx(r, c, sz) + 1]
           ch == t.char
       IN  IF r \notin locked /\ st.marks[t.id] = NoMark
              /\ needOf(st.rowNeed[r], ch) > 1 /\ secrets[r + 1][c + 1] # ch
             THEN passOrangeStrict(b, sz, secrets, locked, k + 1,
                    [st EXCEPT !.marks[t.id] = "o", !.rowNeed[r][ch] = @ - 1])
             ELSE passOrangeStrict(b, sz, secrets, locked, k + 1, st)

\* faulty variant of pass 2: the locked set is asked for the column
RECURSIVE passOrangeSkipsColumn(_, _, _, _, _, _)
passOrangeSkipsColumn(b, sz, secrets, locked, k, st) ==
  IF k >= sz * sz THEN st
  ELSE LET r  == k \div sz
           c  == k % sz
           t  == b[idx(r, c, sz) + 1]
           ch == t.char
       IN  IF c \notin locked /\ st.marks[t.id] = NoMark
              /\ needOf(st.rowNeed[r], ch) > 0 /\ secrets[r + 1][c + 1] # ch
             THEN passOrangeSkipsColumn(b, sz, secrets, locked, k + 1,
                    [st EXCEPT !.marks[t.id] = "o", !.rowNeed[r][ch] = @ - 1])
             ELSE passOrangeSkipsColumn(b, sz, secrets, locked, k + 1, st)

\* pass 2 (lines 166-179), rows in order, columns in order; k = r*size + c
RECURSIVE passOrange(_, _, _, _, _, _)
passOrange(b, sz, secrets, locked, k, st) ==
  IF k >= sz * sz THEN st
  ELSE LET r  == k \div sz
           c  == k % sz
           t  == b[idx(r, c, sz) + 1]
           ch == t.char
       IN  IF r \notin locked /\ st.marks[t.id] = NoMark
              /\ needOf(st.rowNeed[r], ch) > 0 /\ secrets[r + 1][c + 1] # ch
             THEN passOrange(b, sz, secrets, locked, k + 1,
                    [st EXCEPT !.marks[t.id] = "o", !.rowNeed[r][ch] = @ - 1])
             ELSE passOrange(b, sz, secrets, locked, k + 1, st)

\* faulty variant of pass 3: "if (marks.has(t.id)) continue" is missing
RECURSIVE passYellowOverwrites(_, _, _, _, _)
passYellowOverwrites(b, sz, secrets, k, st) ==
  IF k >= sz * sz THEN st
  ELSE LET c  == k \div sz
           r  == k % sz
           t  == b[idx(r, c, sz) + 1]
           ch == t.char
       IN  IF needOf(st.colNeed[c], ch) > 0 /\ secrets[r + 1][c + 1] # ch
             THEN passYellowOverwrites(b, sz, secrets, k + 1,
                    [st EXCEPT !.marks[t.id] = "y", !.colNeed[c][ch] = @ - 1])
             ELSE passYellowOverwrites(b, sz, secrets, k + 1, st)

\* faulty variant of pass 3: yellow only while the column still needs two of the letter
RECURSIVE passYellowStrict(_, _, _, _, _)
passYellowStrict(b, sz, secrets, k, st) ==
  IF k >= sz * sz THEN st
  ELSE LET c  == k \div sz
           r  == k % sz
           t  == b[idx(r, c, sz) + 1]
           ch == t.char
       IN  IF st.marks[t.id] = NoMark
              /\ needOf(st.colNeed[c], ch) > 1 /\ secrets[r + 1][c + 1] # ch
             THEN passYellowStrict(b, sz, secrets, k + 1,
                    [st EXCEPT !.marks[t.id] = "y", !.colNeed[c][ch] = @ - 1])
             ELSE passYellowStrict(b, sz, secrets, k + 1, st)

\* pass 3 (lines 181-192), columns in order, rows in order; k = c*size + r
RECURSIVE passYellow(_, _, _, _, _)
passYellow(b, sz, secrets, k, st) ==
  IF k >= sz * sz THEN st
  ELSE LET c  == k \div sz
           r  == k % sz
           t  == b[idx(r, c, sz) + 1]
           ch == t.char
       IN  IF st.marks[t.id] = NoMark
              /\ needOf(st.colNeed[c], ch) > 0 /\ secrets[r + 1][c + 1] # ch
             THEN passYellow(b, sz, secrets, k + 1,
                    [st EXCEPT !.marks[t.id] = "y", !.colNeed[c][ch] = @ - 1])
             ELSE passYellow(b, sz, secrets, k + 1, st)

\* pass 4 (lines 194-198): the rest are gray
passGray(marks) == [id \in DOMAIN marks |-> IF marks[id] = NoMark THEN "x" ELSE marks[id]]

\* computeMarks(board, size, secrets, locked): tile id -> "g" | "o" | "y" | "x"
computeMarks(b, sz, secrets, locked) ==
  LET ids == {b[i].id : i \in 1..Len(b)}
      st0 == [marks   |-> [id \in ids |-> NoMark],
              rowNeed |-> rowNeedInit(sz, secrets),
              colNeed |-> colNeedInit(sz, secrets)]
      st1 == passGreen(b, sz, secrets, 0, st0)
      st2 == passOrange(b, sz, secrets, locked, 0, st1)
      st3 == passYellow(b, sz, secrets, 0, st2)
  IN  passGray(st3.marks)

\* faulty variant of newlyGreenIDs: the ids already rewarded are not excluded
newlyGreenIDsForgetful(prev, next, already) ==
  {id \in DOMAIN next :
     next[id] = "g" /\ ~(id \in DOMAIN prev /\ prev[id] = "g")}

\* faulty variant of newlyGreenIDs: prev is not consulted
newlyGreenIDsIgnoresPrev(prev, next, already) ==
  {id \in DOMAIN next : next[id] = "g" /\ id \notin already}

\* faulty variant of newlyGreenIDs: an id absent from prev is not counted
newlyGreenIDsNeedsPrev(prev, next, already) ==
  {id \in DOMAIN next :
     /\ next[id] = "g"
     /\ id \in DOMAIN prev /\ prev[id] # "g"
     /\ id \notin already}

\* newlyGreenIDs(prev, next, already): ids green in next, not green in prev
\* (absent from prev counts as not green), not yet rewarded
newlyGreenIDs(prev, next, already) ==
  {id \in DOMAIN next :
     /\ next[id] = "g"
     /\ ~(id \in DOMAIN prev /\ prev[id] = "g")
     /\ id \notin already}

\* ======================================================
\* App (single mode - free solve)
\* ======================================================

\* ---------- Bounds of the model
MaxMoves == 4          \* swaps per session explored by Spec
MaxSeconds == 3        \* decay ticks per session explored by Spec

\* The cells the modelled player touches (drag source, drop target, click)
PlayCells(sz) == IF sz = 3 THEN {0, 1, 3, 6} ELSE {0, sz}

\* Outcomes of rand explored for startGame and for the initial
\* makeCampaignBoard(5).  The words are the first words of the list.  base
\* lists the adjacent swaps << a, k >> (b = neigh(a)[k]) of the base shuffle
\* that do not cancel one another; passes lists those of each extra pass.
\*   3 x 3, cells 0 1 3 6 hold the tiles (by id) ...
\*     A: 4 2 7 1   column 0 rotated
\*     B: 2 1 7 4   0<->1 and 3<->6
\*     C: 7 1 2 4   the base shuffle cancels out, one extra pass
RndA == [first |-> 0, pops |-> << 1, 2, 3 >>, passes |-> << >>,
         base |-> << << 0, 0 >>, << 3, 1 >> >>]
RndB == [first |-> 0, pops |-> << 1, 2, 3 >>, passes |-> << >>,
         base |-> << << 0, 1 >>, << 3, 1 >> >>]
RndC == [first |-> 0, pops |-> << 1, 2, 3 >>, base |-> << >>,
         passes |-> << << << 3, 1 >>, << 0, 0 >>,
                          << 1, 0 >>, << 3, 2 >>, << 1, 0 >> >> >>]
\* D: every draw of the 50 extra passes is cell 0 with the cell below it; the
\*    base shuffle nets to 0<->3 and 1<->4.  The loop of lines 111-114 gives
\*    up at tries = 50 and the board keeps its last row on target.
RndD == [first |-> 0, pops |-> << 1, 2, 3 >>,
         base |-> << << 0, 0 >>, << 1, 0 >> >>,
         passes |-> [i \in 1..50 |-> [j \in 1..9 |-> << 0, 0 >>]]]
Rnd5 == [first |-> 0, pops |-> << 1, 2, 3, 4, 5 >>, passes |-> << >>,
         base |-> << << 0, 0 >>, << 10, 1 >>, << 20, 1 >>, << 21, 2 >> >>]

GameRnd(sz) == IF sz = 3 THEN {RndA, RndB, RndC} ELSE {Rnd5}

LateRnd(sz) == IF sz = 3 THEN {RndC, RndD} ELSE {}

GameSizes == {3}       \* sizes passed to startGame

\* makeCampaignBoard(n) for the explored outcomes of rand, tabulated
campaigns ==
  [n \in GameSizes \cup {5} |->
     [rnd \in GameRnd(n) \cup LateRnd(n) |-> makeCampaignBoard(n, << >>, rnd)]]

\* ---------- The React state as one record (one render)
NoTimeout == [row |-> Null, size |-> Null]
NoCarried == [atCall |-> {}, alive |-> {}]

Cur ==
  [size |-> size, board |-> board, rowSecrets |-> rowSecrets,
   lockedRows |-> lockedRows, moves |-> moves, seconds |-> seconds,
   running |-> running, won |-> won, lost |-> lost,
   rowCleared |-> rowCleared, selectedIndex |-> selectedIndex,
   score |-> score, interval |-> interval, timeout |-> timeout,
   carried |-> carried]

Commit(s) ==
  /\ size' = s.size
  /\ board' = s.board
  /\ rowSecrets' = s.rowSecrets
  /\ lockedRows' = s.lockedRows
  /\ moves' = s.moves
  /\ seconds' = s.seconds
  /\ running' = s.running
  /\ won' = s.won
  /\ lost' = s.lost
  /\ rowCleared' = s.rowCleared
  /\ selectedIndex' = s.selectedIndex
  /\ score' = s.score
  /\ interval' = s.interval
  /\ timeout' = s.timeout
  /\ carried' = s.carried

\* ---------- Effects.  p is the previous render, s this render, touched the
\* reference-typed states (board, rowSecrets, lockedRows) that were set to a
\* new object since p; numbers and booleans are compared by value.

\* Meter decay effect (lines 280-287), deps [running, won, lost]: on a change
\* the old interval is cleared and a new one is created iff the game runs
decayDeps(p, s) == << p.running, p.won, p.lost >> # << s.running, s.won, s.lost >>

decayInterval(p, s) ==
  IF decayDeps(p, s)
    THEN (IF ~s.running \/ s.won \/ s.lost THEN "none" ELSE "on")
    ELSE s.interval

\* Celebration effect (lines 312-327), deps [rowCleared, size]: on a change
\* the cleanup clears the old timeout and, if a row is cleared, a new timeout
\* is created whose callback closes over this render's rowCleared and size
celebrationDeps(p, s) == p.rowCleared # s.rowCleared \/ p.size # s.size

\* faulty variant of celebrationTimer: the effect returns no cleanup
celebrationTimerNoCleanup(p, s) ==
  IF celebrationDeps(p, s) /\ s.rowCleared # Null
    THEN [row |-> s.rowCleared, size |-> s.size]
    ELSE s.timeout

celebrationTimer(p, s) ==
  IF celebrationDeps(p, s)
    THEN (IF s.rowCleared # Null
            THEN [row |-> s.rowCleared, size |-> s.size]
            ELSE NoTimeout)
    ELSE s.timeout

\* the timers of the previous session that outlive this round of effects: the
\* interval unless the decay effect cleared it, the timeout unless the
\* celebration effect cleared or replaced it
stillPending(p, s, alive) ==
  (alive \ (IF decayDeps(p, s) THEN {"interval"} ELSE {}))
     \ (IF celebrationTimer(p, s) # s.timeout THEN {"timeout"} ELSE {})

\* faulty variant of outOfTime: the loss is declared one decay step early
outOfTimeEarly(p, s) ==
  /\ (p.score # s.score \/ p.won # s.won)
  /\ ~s.won /\ s.score <= DECAY_PER_SEC

\* Out of time effect (lines 290-295), deps [score, won]
outOfTime(p, s) ==
  /\ (p.score # s.score \/ p.won # s.won)
  /\ ~s.won /\ s.score <= 0

\* Row-cleared detection (lines 298-309),
\* deps [board, rowSecrets, size, lockedRows, won, lost]
solvedUnlocked(s) ==
  {r \in 0..(s.size - 1) :
     /\ r \notin s.lockedRows
     /\ r + 1 \in DOMAIN s.rowSecrets
     /\ s.rowSecrets[r + 1] # << >>
     /\ rowString(s.board, s.size, r) = s.rowSecrets[r + 1]}

\* faulty variant of rowDetect: lockedRows is missing from the deps
rowDetectLocksBlind(p, s, touched) ==
  /\ (touched \cap {"board", "rowSecrets"} # {}
        \/ p.size # s.size \/ p.won # s.won \/ p.lost # s.lost)
  /\ ~(s.won \/ s.lost)
  /\ solvedUnlocked(s) # {}

\* faulty variant of rowDetect: board is missing from the deps
rowDetectBoardBlind(p, s, touched) ==
  /\ (touched \cap {"rowSecrets", "lockedRows"} # {}
        \/ p.size # s.size \/ p.won # s.won \/ p.lost # s.lost)
  /\ ~(s.won \/ s.lost)
  /\ solvedUnlocked(s) # {}

rowDetect(p, s, touched) ==
  /\ (touched \cap {"board", "rowSecrets", "lockedRows"} # {}
        \/ p.size # s.size \/ p.won # s.won \/ p.lost # s.lost)
  /\ ~(s.won \/ s.lost)
  /\ solvedUnlocked(s) # {}

\* faulty variant of firstSolved: the loop runs from the last row upwards
lastSolved(s) ==
  CHOOSE r \in solvedUnlocked(s) : \A q \in solvedUnlocked(s) : r >= q

\* the row the loop of lines 300-308 breaks on
firstSolved(s) ==
  CHOOSE r \in solvedUnlocked(s) : \A q \in solvedUnlocked(s) : r <= q

\* faulty variant of winEffect: won as soon as one row is left open
winEffectEarly(p, s, touched) ==
  /\ ("lockedRows" \in touched \/ p.size # s.size)
  /\ Cardinality(s.lockedRows) >= s.size - 1 /\ s.size > 0

\* Win effect (lines 329-334), deps [lockedRows, size]
winEffect(p, s, touched) ==
  /\ ("lockedRows" \in touched \/ p.size # s.size)
  /\ Cardinality(s.lockedRows) = s.size /\ s.size > 0

\* One round of effects after a render, in the order of declaration; every
\* effect reads the values of render s, the updates are applied together.
applyEffects(p, s, oot, det, win) ==
  [s EXCEPT
     !.interval   = decayInterval(p, s),
     !.timeout    = celebrationTimer(p, s),
     !.carried    = [@ EXCEPT !.alive = stillPending(p, s, @)],
     !.lost       = IF oot THEN TRUE ELSE @,
     !.rowCleared = IF det THEN firstSolved(s) ELSE @,
     !.won        = IF win THEN TRUE ELSE @,
     !.running    = IF oot \/ det \/ win THEN FALSE ELSE @]

EffectPass(p, s, touched) ==
  applyEffects(p, s, outOfTime(p, s), rowDetect(p, s, touched),
               winEffect(p, s, touched))

\* Render and run effects until no effect changes the state
RECURSIVE settleFrom(_, _)
settleFrom(s, n) == IF n = s THEN s ELSE settleFrom(n, EffectPass(s, n, {}))

Settle(p, s, touched) == settleFrom(s, EffectPass(p, s, touched))

\* ---------- Handlers

\* faulty variant of isRowLocked: the row being celebrated is not protected
isRowLockedNoCelebration(r) == r \in lockedRows

isRowLocked(r) == r \in lockedRows \/ r = rowCleared

\* cells a and b are neighbours in a row or in a column
adjacent(a, b, sz) ==
  \/ (a \div sz = b \div sz /\ (a - b = 1 \/ b - a = 1))
  \/ (a % sz = b % sz /\ (a - b = sz \/ b - a = sz))

\* faulty variant of canSwapIndices: only neighbouring cells may be exchanged
canSwapAdjacentOnly(a, b) ==
  IF a = b \/ ~adjacent(a, b, size) THEN FALSE
  ELSE IF isRowLocked(a \div size) \/ isRowLocked(b \div size) THEN FALSE
  ELSE TRUE

canSwapIndices(a, b) ==
  IF a = b THEN FALSE
  ELSE LET ra == rc(a, size).r
           rb == rc(b, size).r
       IN  IF isRowLocked(ra) \/ isRowLocked(rb) THEN FALSE ELSE TRUE

\* marks of the current render (line 337)
marks == computeMarks(board, size, rowSecrets, lockedRows)

\* performSwap(a, b), lines 359-363: the ids to reward; mk is marks and
\* nextMarks the marks of the board with a and b exchanged
swapNewly(mk, nextMarks) == newlyGreenIDs(mk, nextMarks, rewardedGreen)

\* faulty variant of swapScore: the green bonus is not clamped to the cap
swapScoreUncapped(sc, n) ==
  LET s1 == IF MOVE_PENALTY # 0 THEN Max(0, sc - MOVE_PENALTY) ELSE sc
  IN  IF n # 0 THEN s1 + n * GREEN_BONUS ELSE s1

\* faulty variant of swapScore: a swap that turns no tile green is free
swapScoreFreeIdle(sc, n) ==
  LET s1 == IF MOVE_PENALTY # 0 THEN Max(0, sc - MOVE_PENALTY) ELSE sc
  IN  IF n # 0 THEN Min(SCORE_CAP, s1 + n * GREEN_BONUS) ELSE sc

\* Score effects of performSwap (lines 372-379) for n newly green ids
swapScore(sc, n) ==
  LET s1 == IF MOVE_PENALTY # 0 THEN Max(0, sc - MOVE_PENALTY) ELSE sc
  IN  IF n # 0 THEN Min(SCORE_CAP, s1 + n * GREEN_BONUS) ELSE s1

\* rewardedGreen.current after the forEach of line 376
rewardAll(already, newly) == already \cup newly

\* faulty variant of swapCommit: the swap is applied to the preview only
\* (line 361), the board committed by setBoard is the old one
swapCommitPreviewOnly(a, b, newly, nextMarks) ==
  /\ Commit(Settle(Cur, [Cur EXCEPT
                           !.selectedIndex = Null,
                           !.running = TRUE,
                           !.moves = @ + 1,
                           !.score = swapScore(@, Cardinality(newly)),
                           !.carried = NoCarried],
                    {"board"}))
  /\ rewardedGreen' = rewardAll(rewardedGreen, newly)
  /\ greenCredits' = [id \in DOMAIN greenCredits |->
                        IF id \in newly THEN greenCredits[id] + 1
                                        ELSE greenCredits[id]]
  /\ lostGreen' = lostGreen \cup {id \in rewardedGreen : nextMarks[id] # "g"}
  /\ UNCHANGED << gen, probe, mode, secret, guess >>

\* the commit of performSwap (lines 366-379)
swapCommit(a, b, newly, nextMarks) ==
  /\ Commit(Settle(Cur, [Cur EXCEPT
                           !.board = swapArr(board, a, b),
                           !.selectedIndex = Null,
                           !.running = TRUE,
                           !.moves = @ + 1,
                           !.score = swapScore(@, Cardinality(newly)),
                           !.carried = NoCarried],
                    {"board"}))
  /\ rewardedGreen' = rewardAll(rewardedGreen, newly)
  /\ greenCredits' = [id \in DOMAIN greenCredits |->
                        IF id \in newly THEN greenCredits[id] + 1
                                        ELSE greenCredits[id]]
  /\ lostGreen' = lostGreen \cup {id \in rewardedGreen : nextMarks[id] # "g"}
  /\ UNCHANGED << gen, probe, mode, secret, guess >>

swapMarked(a, b, mk, nextMarks) ==
  swapCommit(a, b, swapNewly(mk, nextMarks), nextMarks)

performSwap(a, b, mk) ==
  swapMarked(a, b, mk,
             computeMarks(swapArr(board, a, b), size, rowSecrets, lockedRows))

select(i) ==
  /\ selectedIndex' = i
  /\ carried' = NoCarried
  /\ UNCHANGED << size, board, rowSecrets, lockedRows, moves, seconds, running,
                  won, lost, rowCleared, score, rewardedGreen, interval,
                  greenCredits, lostGreen, gen, probe, timeout,
                  mode, secret, guess >>

\* handleTileClick(i), lines 419-432
handleTileClick(i, mk) ==
  IF won \/ lost THEN UNCHANGED vars
  ELSE IF isRowLocked(rc(i, size).r) THEN UNCHANGED vars
  ELSE IF selectedIndex = Null THEN select(i)
  ELSE IF selectedIndex = i THEN select(Null)
  ELSE IF isRowLocked(rc(selectedIndex, size).r) THEN select(i)
  ELSE IF canSwapIndices(selectedIndex, i)
         THEN performSwap(selectedIndex, i, mk)
         ELSE select(i)

\* faulty variant of onDrop: the drop is not submitted to canSwapIndices
onDropUnchecked(a, b, mk) ==
  IF a >= 0 /\ a # b
    THEN performSwap(a, b, mk)
    ELSE select(Null)

\* onDrop / onPointerUp on cell b (lines 586-603) of a drag that began on
\* cell a: dragIndex is a from onDragStart / onPointerDown until the drop,
\* which clears it
onDrop(a, b, mk) ==
  IF a >= 0 /\ a # b /\ canSwapIndices(a, b)
    THEN performSwap(a, b, mk)
    ELSE select(Null)

\* faulty variant of tick: the meter loses a whole MOVE_PENALTY per second
tickMovePenalty ==
  /\ interval # "none"
  /\ Commit(Settle(Cur, [Cur EXCEPT !.seconds = @ + 1,
                                    !.score = Max(0, @ - MOVE_PENALTY),
                                    !.carried = NoCarried], {}))
  /\ UNCHANGED << rewardedGreen, greenCredits, lostGreen, gen, probe, mode, secret, guess >>

\* The decay interval's callback (lines 282-285)
tick ==
  /\ interval # "none"
  /\ Commit(Settle(Cur, [Cur EXCEPT !.seconds = @ + 1,
                                    !.score = Max(0, @ - DECAY_PER_SEC),
                                    !.carried = NoCarried], {}))
  /\ UNCHANGED << rewardedGreen, greenCredits, lostGreen, gen, probe, mode, secret, guess >>

\* The celebration timeout's callback (lines 315-324); its closure holds the
\* rowCleared and size of the render that created it
\* faulty variant of rowBonus: the bonus does not grow with the size
rowBonusFlat(sz) == ROW_SOLVED_BONUS_PER_SIZE

rowBonus(sz) == ROW_SOLVED_BONUS_PER_SIZE * sz

\* faulty variant of addLocked: the previous set is not copied
addLockedFresh(prev, r) == {r}

\* new Set(prev).add(rowCleared), line 317
addLocked(prev, r) == prev \cup {r}

\* faulty variant of celebrationTimeout: the lock of a row counts as a move
celebrationTimeoutCountsMove ==
  /\ timeout # NoTimeout
  /\ Commit(Settle(Cur, [Cur EXCEPT
                           !.timeout = NoTimeout,
                           !.lockedRows = addLocked(@, timeout.row),
                           !.rowCleared = Null,
                           !.score = Min(SCORE_CAP, @ + rowBonus(timeout.size)),
                           !.running = TRUE,
                           !.moves = @ + 1,
                           !.carried = NoCarried], {"lockedRows"}))
  /\ UNCHANGED << rewardedGreen, greenCredits, lostGreen, gen, probe, mode, secret, guess >>

celebrationTimeout ==
  /\ timeout # NoTimeout
  /\ Commit(Settle(Cur, [Cur EXCEPT
                           !.timeout = NoTimeout,
                           !.lockedRows = addLocked(@, timeout.row),
                           !.rowCleared = Null,
                           !.score = Min(SCORE_CAP, @ + rowBonus(timeout.size)),
                           !.running = TRUE,
                           !.carried = NoCarried], {"lockedRows"}))
  /\ UNCHANGED << rewardedGreen, greenCredits, lostGreen, gen, probe, mode, secret, guess >>

\* startGame(newSize, maybeWord?), lines 399-417
noCredits(sz) == [id \in 1..(sz * sz) |-> 0]

\* the timers pending when startGame is called
pendingTimers ==
  (IF interval # "none" THEN {"interval"} ELSE {})
    \cup (IF timeout # NoTimeout THEN {"timeout"} ELSE {})

startWith(newSize, nextCamp) ==
  /\ Commit(Settle(Cur, [Cur EXCEPT
                           !.board = nextCamp.board,
                           !.size = newSize,
                           !.moves = 0,
                           !.seconds = 0,
                           !.running = TRUE,
                           !.won = FALSE,
                           !.lost = FALSE,
                           !.rowCleared = Null,
                           !.selectedIndex = Null,
                           !.rowSecrets = nextCamp.words,
                           !.lockedRows = {},
                           !.score = SCORE_START,
                           !.carried = [atCall |-> pendingTimers,
                                        alive |-> pendingTimers]],
                    {"board", "rowSecrets", "lockedRows"}))
  /\ rewardedGreen' = {}
  /\ greenCredits' = noCredits(newSize)
  /\ lostGreen' = {}
  /\ UNCHANGED << gen, probe, mode, secret, guess >>

startGame(newSize, maybeWord, rnd) ==
  startWith(newSize, IF maybeWord = << >>
                       THEN campaigns[newSize][rnd]
                       ELSE makeCampaignBoard(newSize, maybeWord, rnd))

\* ---------- Specification of the game
GenIdle == [pc |-> "done", s |-> 0, tries |-> 0, pref |-> << >>]
NoProbe == [called |-> FALSE, marks |-> << >>, gained |-> {}]

\* The state after construction (lines 229-270): a 5 x 5 campaign board, not
\* running.  The mount effects change nothing: no row is solved, score > 0.
Init ==
  \E rnd \in GameRnd(5) :
    \E campInit \in {campaigns[5][rnd]} :
        /\ size = 5
        /\ board = campInit.board
        /\ rowSecrets = campInit.words
        /\ lockedRows = {}
        /\ moves = 0
        /\ seconds = 0
        /\ running = FALSE
        /\ won = FALSE
        /\ lost = FALSE
        /\ rowCleared = Null
        /\ selectedIndex = Null
        /\ score = SCORE_START
        /\ rewardedGreen = {}
        /\ interval = "none"
        /\ greenCredits = noCredits(5)
        /\ lostGreen = {}
        /\ gen = GenIdle
        /\ probe = NoProbe
        /\ timeout = NoTimeout
        /\ carried = NoCarried
        /\ SlideAbsent

\* Spec: a player who drags, drops and clicks, at most MaxMoves swaps and MaxSeconds
\* decay ticks per session, restarts at any time
\* (a drop of a on b and a drop of b on a run the same code: a <= b)
\* The loss overlay (lines 728-729, fixed inset-0 z-50) lies over the grid
\* while lost is true: no drop and no pointer-up then finds a tile under the
\* pointer.  (A click can still reach the focused tile from the keyboard;
\* the win overlay can be hidden, line 721.)
lossOverlay == lost

Drop ==
  /\ moves < MaxMoves
  /\ ~lossOverlay
  /\ \E mk \in {marks} :
       \E a \in PlayCells(size), b \in PlayCells(size) :
         a <= b /\ onDrop(a, b, mk)
Click ==
  /\ moves < MaxMoves
  /\ \E mk \in {marks} : \E i \in PlayCells(size) : handleTileClick(i, mk)
Tick == seconds < MaxSeconds /\ tick
CelebrationEnd == celebrationTimeout
Restart == \E n \in GameSizes : \E rnd \in GameRnd(n) : startGame(n, << >>, rnd)

Next == Drop \/ Click \/ Tick \/ CelebrationEnd \/ Restart

Spec == Init /\ [][Next]_vars

\* SpecLate: long sessions on the 3 x 3 board C, played to the end of the
\* meter, and sessions on board D, which starts with its last row on target.  The k-th swap of a session is one of LateScript[k]; decay ticks
\* are not bounded (the meter bounds them).
\*   cells 0 1 3 6 hold   7 1 2 4
\*   0<->1  ->  1 7 2 4   tile 1 turns green (first reward)
\*     (or 0<->3  ->  2 7 1 4   a first swap that turns no tile green)
\*   0<->3  ->  2 7 1 4
\*   0<->1  ->  7 2 1 4   tile 2 turns green (first reward)
\*   0<->1  ->  2 7 1 4
\*   1<->3  ->  2 1 7 4
\*   then either 0<->1 (row 0 solved, rows 1 and 2 not)
\*        or     3<->6 (rows 1 and 2 solved) and 0<->1 (the last row solved)
LateScript ==
  << { << 0, 1 >>, << 0, 3 >> }, { << 0, 3 >> }, { << 0, 1 >> }, { << 0, 1 >> },
     { << 1, 3 >> }, { << 0, 1 >>, << 3, 6 >> }, { << 0, 1 >> } >>

DropLate ==
  /\ size = 3
  /\ ~lossOverlay
  /\ moves < Len(LateScript)
  /\ \E mk \in {marks} :
       \E pr \in LateScript[moves + 1] : onDrop(pr[1], pr[2], mk)
TickLate == tick
RestartLate == \E rnd \in LateRnd(3) : startGame(3, << >>, rnd)

NextLate == DropLate \/ TickLate \/ CelebrationEnd \/ RestartLate

SpecLate == Init /\ [][NextLate]_vars

\* SpecLateFair: the sessions of SpecLate in which a pending celebration
\* timeout is not postponed for ever: window.setTimeout(..., 650) runs its
\* callback unless the cleanup of line 326 clears it.  The steps of
\* CelebrationEnd are the steps of NextLate that add the row of the pending
\* timeout to lockedRows (line 317), and CelebrationEnd is enabled exactly
\* when a timeout is pending, so the fairness of CelebrationEnd is stated on
\* lockedRows, the variable that tells its steps from all others.
CelebrationLocks ==
  /\ timeout # NoTimeout
  /\ lockedRows' = addLocked(lockedRows, timeout.row)

SpecLateFair == SpecLate /\ WF_lockedRows(CelebrationLocks)

\* ---------- Specification of the generator: makeCampaignBoard step by step
baseSteps(sz) == Max(300, sz * sz * 10)
passSteps(sz) == sz * sz

\* outcomes << rand(board.length), rand(neigh.length) >> explored in
\* shuffleByAdjSwaps: the first cell of row 0 with the cell below it, the
\* first cell of row 2 with the cell above it
ShuffleOutcomes(sz) == { << 0, 0 >>, << 2 * sz, 0 >> }

\* arguments and word-choice outcomes explored
GenInputs ==
  { [size |-> 3, pref |-> << >>, rnd |-> [first |-> 0, pops |-> << 1, 2, 3 >>]],
    [size |-> 3, pref |-> << "d", "o", "g" >>,
       rnd |-> [first |-> 0, pops |-> << 1, 2 >>]],
    [size |-> 3, pref |-> << "h", "i" >>,
       rnd |-> [first |-> 4, pops |-> << 19, 7 >>]],
    [size |-> 4, pref |-> << >>, rnd |-> [first |-> 0, pops |-> << 1, 2, 3, 4 >>]],
    [size |-> 4, pref |-> << >>, rnd |-> [first |-> 0, pops |-> << 23, 1, 2, 3 >>]] }

\* lines 100-105 done: words chosen, tiles laid out, about to shuffle
InitGen ==
  \E in \in GenInputs :
    \E words \in {chooseCampaignWords(in.size, in.pref, in.rnd)} :
        /\ size = in.size
        /\ rowSecrets = words
        /\ board = layout(in.size, words)
        /\ gen = [pc |-> "base", s |-> 0, tries |-> 0, pref |-> in.pref]
        /\ lockedRows = {}
        /\ moves = 0
        /\ seconds = 0
        /\ running = FALSE
        /\ won = FALSE
        /\ lost = FALSE
        /\ rowCleared = Null
        /\ selectedIndex = Null
        /\ score = SCORE_START
        /\ rewardedGreen = {}
        /\ interval = "none"
        /\ greenCredits = noCredits(in.size)
        /\ lostGreen = {}
        /\ probe = NoProbe
        /\ timeout = NoTimeout
        /\ carried = NoCarried
        /\ SlideAbsent

GameUnchanged ==
  UNCHANGED << size, rowSecrets, lockedRows, moves, seconds, running, won, lost,
               rowCleared, selectedIndex, score, rewardedGreen, interval,
               greenCredits, lostGreen, probe, timeout, carried,
               mode, secret, guess >>

genSteps == IF gen.pc = "base" THEN baseSteps(size) ELSE passSteps(size)

\* one iteration of the for loop of shuffleByAdjSwaps (lines 120-130)
GenShuffleStep ==
  /\ gen.pc \in {"base", "pass"}
  /\ gen.s < genSteps
  /\ \E o \in ShuffleOutcomes(size) :
       board' = shuffleStep(board, size, o[1], o[2])
  /\ gen' = [gen EXCEPT !.s = @ + 1]
  /\ GameUnchanged

\* shuffleByAdjSwaps returns (line 108; or line 112, followed by tries++)
GenShuffleReturn ==
  /\ gen.pc \in {"base", "pass"}
  /\ gen.s = genSteps
  /\ gen' = [gen EXCEPT !.pc = "loop", !.s = 0,
                         !.tries = IF gen.pc = "pass" THEN @ + 1 ELSE @]
  /\ UNCHANGED board
  /\ GameUnchanged

\* the while condition of line 111 holds: an extra pass starts
GenRetry ==
  /\ gen.pc = "loop"
  /\ isAnyRowSolved(board, size, rowSecrets) /\ gen.tries < 50
  /\ gen' = [gen EXCEPT !.pc = "pass", !.s = 0]
  /\ UNCHANGED board
  /\ GameUnchanged

\* the while condition fails: makeCampaignBoard returns (line 115)
GenReturn ==
  /\ gen.pc = "loop"
  /\ ~(isAnyRowSolved(board, size, rowSecrets) /\ gen.tries < 50)
  /\ gen' = [gen EXCEPT !.pc = "done"]
  /\ UNCHANGED board
  /\ GameUnchanged

NextGen == GenShuffleStep \/ GenShuffleReturn \/ GenRetry \/ GenReturn

SpecGen == InitGen /\ [][NextGen]_vars

\* ---------- Specification of the mark engine
\* The tests of lines 644-677 lay a solved board out of the targets, exchange
\* cells with swapArr and call computeMarks and newlyGreenIDs on the result.
\* SpecMarks runs that harness over a set of inputs: the two target sets of the
\* tests (all letters distinct), a target set with a repeated letter, and
\* locked-row sets, and the targets of a campaign; any sequence of exchanges
\* among the cells ExchangeCells.
TestSecrets4 ==
  << <<"A","B","C","D">>, <<"E","F","G","H">>, <<"I","J","K","L">>, <<"M","N","O","P">> >>
TestSecrets3 == << <<"A","B","C">>, <<"D","E","F">>, <<"G","H","I">> >>
RepeatSecrets3 == << <<"A","B","C">>, <<"B","D","E">>, <<"F","G","H">> >>
\* the targets of a 4 x 4 campaign: BREAD, DOOR, CODE, GAME
CampaignSecrets4 ==
  chooseCampaignWords(4, << >>, [first |-> 0, pops |-> << 23, 21, 1, 2 >>])

MarkInputs ==
  { [size |-> 4, secrets |-> TestSecrets4, locked |-> {}],
    [size |-> 4, secrets |-> TestSecrets4, locked |-> {3}],
    [size |-> 3, secrets |-> TestSecrets3, locked |-> {}],
    [size |-> 3, secrets |-> TestSecrets3, locked |-> {2}],
    [size |-> 3, secrets |-> RepeatSecrets3, locked |-> {}],
    [size |-> 3, secrets |-> RepeatSecrets3, locked |-> {0}],
    [size |-> 3, secrets |-> RepeatSecrets3, locked |-> {2}],
    [size |-> 4, secrets |-> CampaignSecrets4, locked |-> {}] }

ExchangeCells(sz) == {0, 1, sz, sz + 1, sz * sz - 1}

InitMarks ==
  \E in \in MarkInputs :
    /\ size = in.size
    /\ rowSecrets = in.secrets
    /\ board = layout(in.size, in.secrets)
    /\ lockedRows = in.locked
    /\ probe = NoProbe
    /\ timeout = NoTimeout
    /\ carried = NoCarried
    /\ gen = GenIdle
    /\ moves = 0
    /\ seconds = 0
    /\ running = FALSE
    /\ won = FALSE
    /\ lost = FALSE
    /\ rowCleared = Null
    /\ selectedIndex = Null
    /\ score = SCORE_START
    /\ rewardedGreen = {}
    /\ interval = "none"
    /\ greenCredits = noCredits(in.size)
    /\ lostGreen = {}
    /\ SlideAbsent

MarksUnchanged ==
  UNCHANGED << size, rowSecrets, lockedRows, moves, seconds, running, won, lost,
               rowCleared, selectedIndex, score, rewardedGreen, interval,
               greenCredits, lostGreen, gen, timeout, carried,
               mode, secret, guess >>

\* swapArr(boardT, a, b) of the tests (lines 650, 662); earlier results are stale
MarksExchange ==
  /\ \E a \in ExchangeCells(size), b \in ExchangeCells(size) :
       a < b /\ board' = swapArr(board, a, b)
  /\ probe' = NoProbe
  /\ MarksUnchanged

\* const cur = computeMarks(boardT, sizeT, secrets, locked);
\* const gained = newlyGreenIDs(new Map(), cur, new Set())   (lines 672-674)
probeOf(cur) ==
  [called |-> TRUE, marks |-> cur, gained |-> newlyGreenIDs(<< >>, cur, {})]

MarksCall ==
  /\ ~probe.called
  /\ probe' = probeOf(computeMarks(board, size, rowSecrets, lockedRows))
  /\ UNCHANGED board
  /\ MarksUnchanged

NextMarks == MarksExchange \/ MarksCall

SpecMarks == InitMarks /\ [][NextMarks]_vars

\* ======================================================
\* Properties
\* ======================================================

\* number of tiles of the board with character ch
tileCount(ch) == Cardinality({i \in 1..Len(board) : board[i].char = ch})

\* number of occurrences of ch in the target words
wordCount(ch) ==
  Cardinality({p \in UNION {{<< r, k >> : k \in 1..Len(rowSecrets[r])} :
                              r \in 1..Len(rowSecrets)} :
                 rowSecrets[p[1]][p[2]] = ch})

\* C1: when makeCampaignBoard has returned, the multiset of the characters of
\* the board's tiles equals the multiset of the characters of all target
\* words (checked under SpecGen).
C1_BoardLettersEqualWordLetters ==
  gen.pc = "done" => \A ch \in Letters : tileCount(ch) = wordCount(ch)

\* C2: when makeCampaignBoard has returned there are size target words and
\* each of them has exactly size letters (checked under SpecGen).
C2_TargetsHaveLengthSize ==
  gen.pc = "done" =>
    /\ Len(rowSecrets) = size
    /\ \A r \in 1..Len(rowSecrets) : Len(rowSecrets[r]) = size

\* C3: when makeCampaignBoard has returned, no row of the board reads its
\* target word, whatever the shuffle drew (checked under SpecGen).
C3_NoRowStartsSolved ==
  gen.pc = "done" => ~isAnyRowSolved(board, size, rowSecrets)

\* C4: won and lost are never both true (checked under SpecLate).
C4_WonLostExclusive == ~(won /\ lost)

\* C5: in a settled state, if won or lost is true then running is false
\* (checked under SpecLate).
C5_TerminalNotRunning == (won \/ lost) => ~running

\* C6: when one swap has completed the last unlocked row (it is being
\* celebrated, every other row is locked) and has brought the score to 0,
\* the lost flag is not set (checked under SpecLate).  With every other row
\* locked and this row celebrated no swap is accepted and no interval runs,
\* so score = 0 in such a state is the work of the completing swap.
C6_WinBeforeLoss ==
  (/\ rowCleared # Null
   /\ rowCleared \notin lockedRows
   /\ lockedRows \cup {rowCleared} = 0..(size - 1)
   /\ score = 0)
    => ~lost

\* C7: the score is within [0, cap], and the cap is the starting value
\* (checked under SpecLate, where the meter is played down to 0).
C7_ScoreWithinBounds == score \in 0..SCORE_CAP /\ SCORE_CAP = SCORE_START

\* C7 witness: the meter is empty in a session that earned a green bonus and
\* a row bonus
C7_Witness == score = 0 /\ lost /\ rewardedGreen # {} /\ lockedRows # {}

\* C8: within one session each tile id is granted the green bonus at most
\* once, and the set of credited ids only grows until a restart clears it
\* (checked under Spec).
C8_GreenBonusOnce ==
  /\ [](\A id \in DOMAIN greenCredits : greenCredits[id] <= 1)
  /\ [][Restart \/ rewardedGreen \subseteq rewardedGreen']_vars

\* C8 witness: a tile that was rewarded, then not green, is green again and
\* still credited once
C8_Witness == \E id \in lostGreen : marks[id] = "g" /\ greenCredits[id] = 1

\* C9: a step that is not a restart never removes a row from lockedRows
\* (checked under Spec).
C9_LockedRowsGrow == [][Restart \/ lockedRows \subseteq lockedRows']_vars

\* C9 witness: two rows are locked and a third one, completed by a later
\* swap, is being celebrated
C9_Witness == Cardinality(lockedRows) >= 2 /\ rowCleared # Null /\ seconds >= 1

\* C10: every locked row reads its target word, and a step that is not a
\* restart leaves the tiles of every locked row where they are (checked under
\* Spec).
C10_LockedRowsReadTarget ==
  /\ [](\A r \in lockedRows : rowString(board, size, r) = rowSecrets[r + 1])
  /\ [][Restart \/ \A r \in lockedRows : \A c \in 0..(size - 1) :
                     board'[idx(r, c, size) + 1] = board[idx(r, c, size) + 1]]_vars

\* C10 witness: a row is locked and the game went on, with swaps after the
\* first one that could complete a row
C10_Witness == lockedRows # {} /\ moves >= 3 /\ running /\ ~won /\ ~lost

\* C11: a step that counts a move exchanges the tiles of two distinct cells
\* and leaves the tile of every other cell as it was (checked under Spec).
C11_SwapExchangesTwoTiles ==
  [][moves' = moves + 1 =>
       \E a \in 1..Len(board) : \E b \in 1..Len(board) :
         /\ a # b
         /\ Len(board') = Len(board)
         /\ board'[a] = board[b]
         /\ board'[b] = board[a]
         /\ \A i \in 1..Len(board) : i \notin {a, b} => board'[i] = board[i]]_vars

\* C11 witness: two accepted swaps were made and no row is locked or
\* celebrated, so both were plain exchanges on a free board
C11_Witness == moves = 2 /\ lockedRows = {} /\ rowCleared = Null /\ size = 3

\* the rows no swap may touch: the locked ones and the one awaiting its lock
closedRows == lockedRows \cup (IF rowCleared = Null THEN {} ELSE {rowCleared})

\* C12: canSwapIndices accepts cells a and b exactly when they differ and
\* neither lies in a locked row or in the row awaiting its lock, whether or
\* not the cells are neighbours (checked under Spec, for all cells).
C12_ValidatorAcceptsFreeCells ==
  \A a \in 0..(size * size - 1) : \A b \in 0..(size * size - 1) :
    canSwapIndices(a, b) <=>
      (a # b /\ a \div size \notin closedRows /\ b \div size \notin closedRows)

\* C12 witness: one row is locked, another awaits its lock, and the validator
\* accepts two cells that are not neighbours
C12_Witness ==
  /\ lockedRows # {}
  /\ rowCleared # Null
  /\ \E a \in 0..(size * size - 1) : \E b \in 0..(size * size - 1) :
       canSwapIndices(a, b) /\ ~adjacent(a, b, size)

\* C13: once the session is won or lost, a step that is not a restart leaves
\* the board, the move counter, the elapsed seconds, the score and the set of
\* locked rows as they are (checked under SpecLate).
C13_TerminalStateFrozen ==
  [][((won \/ lost) /\ ~RestartLate) =>
       UNCHANGED << board, moves, seconds, score, lockedRows >>]_vars

\* vocabulary of the mark claims: the hint the last call gave the tile at cell
\* i, the target letter of cell i, and whether the row pass owes the tile at
\* cell i an orange (its row is open, the tile is not green, and the row's
\* target holds more of its letter than the row's green tiles and the
\* non-green tiles to its left account for)
cells == 0..(size * size - 1)
charAt(i) == board[i + 1].char
hintAt(i) == probe.marks[board[i + 1].id]
targetAt(i) == rowSecrets[(i \div size) + 1][(i % size) + 1]
rowOwed(i) ==
  /\ (i \div size) \notin lockedRows
  /\ charAt(i) # targetAt(i)
  /\ Cardinality({j \in cells : /\ j \div size = i \div size
                                /\ j < i
                                /\ charAt(j) = charAt(i)
                                /\ charAt(j) # targetAt(j)})
       < Cardinality({j \in cells : /\ j \div size = i \div size
                                    /\ targetAt(j) = charAt(i)})
         - Cardinality({j \in cells : /\ j \div size = i \div size
                                      /\ charAt(j) = charAt(i)
                                      /\ charAt(j) = targetAt(j)})

\* C14: computeMarks gives every tile id of the board exactly one hint out of
\* green, orange, yellow, gray; a tile is green if and only if its letter is
\* the target letter of its own cell; and the priority holds: a tile is orange
\* exactly when it is not green and the row pass owes it an orange, so a
\* yellow or gray tile is neither green nor owed an orange.
C14_OneHintGreenIffOnTarget ==
  probe.called =>
    /\ DOMAIN probe.marks = {board[i + 1].id : i \in cells}
    /\ \A i \in cells :
         /\ hintAt(i) \in {"g", "o", "y", "x"}
         /\ hintAt(i) = "g" <=> charAt(i) = targetAt(i)
         /\ hintAt(i) = "o" <=> rowOwed(i)
         /\ hintAt(i) \in {"y", "x"} => charAt(i) # targetAt(i) /\ ~rowOwed(i)
\* the letter B, wanted by row 0 and by column 0, stands at cell (0,0) while
\* neither of its target cells holds a B: it is orange, not yellow
C14_Witness ==
  /\ probe.called /\ rowSecrets = RepeatSecrets3 /\ lockedRows = {}
  /\ charAt(0) = "B" /\ charAt(1) # "B" /\ charAt(3) # "B"
  /\ hintAt(0) = "o"
  /\ \E i \in cells : hintAt(i) = "y"

distinctTargets == \A i \in cells : \A j \in cells : i # j => targetAt(i) # targetAt(j)
solvedLayout == layout(size, rowSecrets)

\* C15: on the solved board of targets whose letters are all distinct, with no
\* row locked, after two cells of the same row are exchanged computeMarks marks
\* the two exchanged tiles orange and every other tile green.
C15_RowExchangeGivesOrange ==
  (probe.called /\ lockedRows = {} /\ distinctTargets) =>
    \A a \in cells : \A b \in cells :
      (a # b /\ a \div size = b \div size /\ board = swapArr(solvedLayout, a, b)) =>
        \A i \in cells : hintAt(i) = (IF i \in {a, b} THEN "o" ELSE "g")
\* the orange test of lines 644-654: ABCD/EFGH/IJKL/MNOP, row 0 now B A C D
C15_Witness ==
  /\ probe.called /\ lockedRows = {} /\ rowSecrets = TestSecrets4
  /\ board = swapArr(layout(4, TestSecrets4), idx(0, 0, 4), idx(0, 1, 4))
  /\ charAt(idx(0, 1, 4)) = "A" /\ hintAt(idx(0, 1, 4)) = "o"

\* C16: on the solved board of targets whose letters are all distinct, with no
\* row locked, after two cells of the same column in different rows are
\* exchanged computeMarks marks the two exchanged tiles yellow and every other
\* tile green.
C16_ColumnExchangeGivesYellow ==
  (probe.called /\ lockedRows = {} /\ distinctTargets) =>
    \A a \in cells : \A b \in cells :
      (/\ a % size = b % size /\ a \div size # b \div size
       /\ board = swapArr(solvedLayout, a, b)) =>
        \A i \in cells : hintAt(i) = (IF i \in {a, b} THEN "y" ELSE "g")
\* the yellow test of lines 656-666: 'A' moved from (0,0) to (1,0)
C16_Witness ==
  /\ probe.called /\ lockedRows = {} /\ rowSecrets = TestSecrets4
  /\ board = swapArr(layout(4, TestSecrets4), idx(0, 0, 4), idx(1, 0, 4))
  /\ charAt(idx(1, 0, 4)) = "A" /\ hintAt(idx(1, 0, 4)) = "y"

\* C17: when every cell holds its target letter, computeMarks marks all
\* size*size tiles green, and newlyGreenIDs against an empty previous map and
\* an empty credited set returns exactly all size*size tile ids.
C17_SolvedBoardAllGreenAllGained ==
  (probe.called /\ \A i \in cells : charAt(i) = targetAt(i)) =>
    /\ \A i \in cells : hintAt(i) = "g"
    /\ probe.gained = {board[i + 1].id : i \in cells}
    /\ Cardinality(probe.gained) = size * size
\* the test of lines 668-677: ABC/DEF/GHI solved, gained.length === 9
C17_Witness ==
  /\ probe.called /\ rowSecrets = TestSecrets3 /\ board = layout(3, TestSecrets3)
  /\ Cardinality(probe.gained) = 9

\* C18: in a session in which no green tile has been credited and no row has
\* been completed, after t decay ticks and m swaps the score is
\* max(0, 100 - 1.5*t - 2*m) points, that is max(0, 200 - 3*t - 4*m) half
\* points; 10 ticks and 1 swap give 83 points (166 half points).
C18_ScoreIsStartMinusDecayAndMoves ==
  (rewardedGreen = {} /\ lockedRows = {} /\ rowCleared = Null) =>
    score = Max(0, SCORE_START - DECAY_PER_SEC * seconds - MOVE_PENALTY * moves)
C18_Witness ==
  /\ rewardedGreen = {} /\ lockedRows = {} /\ rowCleared = Null /\ running
  /\ seconds = 10 /\ moves = 1 /\ score = 166

\* C19: within a session, a step that adds to lockedRows adds exactly one row,
\* not locked before, and credits the row bonus 5 * size (capped at the cap)
\* in that same step; a step that leaves lockedRows alone credits no row
\* bonus: the score moves only by the swap's penalty and green bonus, or by
\* one second of decay.  (Rows stay locked within a session, so each row is
\* credited once.)
C19_RowBonusOncePerLockedRow ==
  [][~Restart =>
       /\ lockedRows' # lockedRows =>
            \E r \in 0..(size - 1) :
              /\ r \notin lockedRows
              /\ lockedRows' = lockedRows \cup {r}
              /\ score' = Min(SCORE_CAP, score + ROW_SOLVED_BONUS_PER_SIZE * size)
       /\ lockedRows' = lockedRows =>
            score' = IF moves' = moves + 1
                       THEN swapScore(score, Cardinality(rewardedGreen' \ rewardedGreen))
                     ELSE IF seconds' = seconds + 1
                       THEN Max(0, score - DECAY_PER_SEC)
                     ELSE score]_vars
\* a row is locked and the score is above what the start value, the decay,
\* the move penalties and the green bonuses add up to: a row bonus is in it
C19_Witness ==
  /\ Cardinality(lockedRows) = 1 /\ rowCleared = Null
  /\ score < SCORE_CAP
  /\ score > SCORE_START - DECAY_PER_SEC * seconds - MOVE_PENALTY * moves
               + GREEN_BONUS * Cardinality(rewardedGreen)

\* C20: after a restart from any state (mid-celebration, won and lost
\* included) lockedRows is empty, moves and seconds are 0, the score is the
\* starting value, the credited-green set is empty, no row is awaiting its
\* lock, won and lost are false and running is true.
C20_RestartResetsSession ==
  [][RestartLate =>
       /\ lockedRows' = {} /\ moves' = 0 /\ seconds' = 0
       /\ score' = SCORE_START /\ rewardedGreen' = {}
       /\ rowCleared' = Null /\ ~won' /\ ~lost' /\ running']_vars

\* C21: when startGame is called while a celebration timeout is pending, that
\* timeout is cleared by the restart: it is not pending in the new session,
\* whose lockedRows is empty and whose score is the starting value, so it adds
\* no row and credits no row bonus there.
C21_StaleCelebrationCancelled ==
  "timeout" \in carried.atCall =>
    /\ "timeout" \notin carried.alive
    /\ lockedRows = {}
    /\ score = SCORE_START
\* a restart in mid-celebration, onto a board with no row on target
C21_Witness ==
  /\ "timeout" \in carried.atCall
  /\ timeout = NoTimeout /\ rowCleared = Null /\ running /\ moves = 0

\* C22: when startGame is called while the session runs, the decay interval
\* of the previous session is cancelled: no step that adds a second (a decay
\* tick) is the callback of an interval that was pending before the restart.
C22_StaleDecayCancelled ==
  [][seconds' = seconds + 1 => "interval" \notin carried.alive]_vars

\* C23: a swap request that canSwapIndices rejects (the same cell twice, or a
\* cell of a locked or celebrating row), made by a drop or by a click on a
\* second tile, leaves the board, the move counter, the score, the
\* credited-green set, lockedRows and running, won, lost unchanged.
C23_RejectedSwapChangesNothing ==
  [][(\E a \in 0..(size * size - 1) : \E b \in 0..(size * size - 1) :
        /\ ~canSwapIndices(a, b)
        /\ \/ onDrop(a, b, marks)
           \/ (selectedIndex = a /\ handleTileClick(b, marks)))
       => UNCHANGED << board, moves, score, rewardedGreen, lockedRows,
                       running, won, lost >>]_vars
\* one row is locked, another is celebrating and a tile of the third is
\* selected: a click or a drop on either closed row is a rejected request
C23_Witness ==
  /\ lockedRows # {} /\ rowCleared # Null /\ selectedIndex # Null
  /\ ~isRowLocked(selectedIndex \div size)
  /\ ~won /\ ~lost

\* C24: won is true only in states where every row index 0..size-1 is in
\* lockedRows, and in every state where lockedRows holds size rows the
\* session is won and not running.
C24_WonIffAllRowsLocked ==
  /\ won => lockedRows = 0..(size - 1)
  /\ Cardinality(lockedRows) = size => won /\ ~running
C24_Witness ==
  /\ won /\ ~lost /\ ~running /\ size = 3 /\ lockedRows = {0, 1, 2}
  /\ moves > 0

\* C25: whenever a step brings the score to 0 while the session is not won,
\* the session is lost and not running after it; and lost is set only by a
\* step that ends with the score at 0, never while the score is above 0.
C25_LostExactlyAtZero ==
  [][/\ (score' = 0 /\ score > 0 /\ ~won') => lost' /\ ~running'
     /\ (lost' /\ ~lost) => score' = 0]_vars
C25_Witness == lost /\ ~won /\ ~running /\ score = 0 /\ rowCleared = Null

\* C26: the word selection returns exactly size target words; a valid
\* preferred word (size letters once upper-cased) is, upper-cased, the target
\* of row 0; every other row's target, and every row's target when no
\* preferred word is given, is a member of the word pool of that size.
C26_WordSelection ==
  /\ Len(rowSecrets) = size
  /\ validWord(toUpperCase(gen.pref), size)
       => rowSecrets[1] = toUpperCase(gen.pref)
  /\ \A r \in 1..size :
       (r > 1 \/ gen.pref = << >>) => includes(WORDS(size), rowSecrets[r])
\* the generator was called with the word "dog" and has returned: row 0 is
\* DOG and the two other targets were drawn from the pool
C26_Witness ==
  /\ gen.pc = "done" /\ gen.pref = << "d", "o", "g" >>
  /\ rowSecrets[1] = << "D", "O", "G" >> /\ Len(rowSecrets) = 3

\* C27: while a row is celebrating (rowCleared set, its lock timeout pending)
\* the session is not running and no decay interval is pending, and no step
\* taken from such a state is a decay tick (seconds + 1), also after a legal
\* swap in the other rows during the celebration.
C27_CelebrationPausesDecay ==
  [][/\ rowCleared' # Null
          => ~running' /\ interval' = "none" /\ timeout' # NoTimeout
     /\ rowCleared # Null => seconds' # seconds + 1]_vars
\* a session that began with row 2 on target (board D): one swap was made
\* in rows 0 and 1 while row 2 was still awaiting its lock
C27_Witness ==
  /\ rowCleared = 2 /\ lockedRows = {} /\ moves = 1 /\ size = 3
  /\ ~running /\ interval = "none" /\ timeout # NoTimeout /\ ~lost

\* the ids a swap is to be credited for: green after, not green before,
\* not yet credited
creditedBy(before, after, credited) ==
  {id \in DOMAIN after :
     after[id] = "g" /\ before[id] # "g" /\ id \notin credited}

\* C28: every accepted swap changes the score from s to
\* min(cap, max(0, s - MOVE_PENALTY) + GREEN_BONUS * k), where k counts the
\* tile ids that are green after the swap, were not green before it and were
\* not yet credited; the penalty applies also when k = 0, and exactly those
\* k ids are added to the credited set.
C28_SwapScoreAndCredits ==
  [][moves' = moves + 1 =>
       \A before \in {marks} :
         \A after \in {computeMarks(board', size', rowSecrets', lockedRows')} :
         \A gained \in {creditedBy(before, after, rewardedGreen)} :
           /\ score' = Min(SCORE_CAP,
                           Max(0, score - MOVE_PENALTY)
                             + GREEN_BONUS * Cardinality(gained))
           /\ rewardedGreen' = rewardedGreen \cup gained]_vars
\* two swaps without a tick: the first turned one tile green and its bonus
\* was cut at the cap, the second turned none green and cost the penalty
C28_Witness ==
  /\ moves = 2 /\ seconds = 0 /\ lockedRows = {} /\ rowCleared = Null
  /\ Cardinality(rewardedGreen) = 1
  /\ score = SCORE_CAP - MOVE_PENALTY

\* C29: within a session the move counter goes up by exactly 1 on each
\* accepted swap (a drop, or a click on the second tile) and is changed by
\* nothing else: a step that changes it either exchanges two cells of the
\* board and adds 1, or is a restart and sets it to 0; rejected swaps, decay
\* ticks and celebration timeouts leave it as it is.
C29_MovesCountAcceptedSwaps ==
  [][/\ \A a \in 0..(size * size - 1) : \A b \in 0..(size * size - 1) :
          (/\ canSwapIndices(a, b)
           /\ board' = swapArr(board, a, b)
           /\ \/ onDrop(a, b, marks)
              \/ (selectedIndex = a /\ ~won /\ ~lost
                    /\ handleTileClick(b, marks)))
            => moves' = moves + 1
     /\ moves' # moves =>
          /\ \/ /\ moves' = moves + 1
                /\ \E a \in 0..(size * size - 1) :
                     \E b \in 0..(size * size - 1) :
                       canSwapIndices(a, b) /\ board' = swapArr(board, a, b)
                /\ size' = size /\ rowSecrets' = rowSecrets
             \/ /\ moves' = 0
                /\ \E n \in GameSizes : \E rnd \in GameRnd(n) \cup LateRnd(n) :
                     startGame(n, << >>, rnd)
          /\ ~tick /\ ~celebrationTimeout]_vars
\* three swaps were accepted, two decay ticks have passed and a row has been
\* locked by its celebration timeout
C29_Witness ==
  /\ moves = 3 /\ seconds = 2 /\ lockedRows # {} /\ rowCleared = Null
  /\ ~won /\ ~lost

\* the rows that are not locked and read their target word
onTarget ==
  {r \in 0..(size - 1) :
     r \notin lockedRows /\ rowString(board, size, r) = rowSecrets[r + 1]}

\* C30: at most one row is celebrating at any time (the one pending lock
\* timeout is that of rowCleared), and the celebrating row is the lowest of
\* the unlocked rows that read their target word, also when a completion
\* check finds several of them.
C30_LowestRowCelebrates ==
  /\ rowCleared \in {Null} \cup 0..(size - 1)
  /\ timeout # NoTimeout => timeout.row = rowCleared /\ timeout.size = size
  /\ rowCleared # Null =>
       /\ timeout # NoTimeout
       /\ rowCleared \in onTarget
       /\ \A r \in onTarget : rowCleared <= r
\* after a swap rows 1 and 2 both read their target and neither is locked:
\* row 1 celebrates, row 2 waits
C30_Witness ==
  /\ size = 3 /\ onTarget = {1, 2} /\ rowCleared = 1 /\ moves > 0
  /\ timeout = [row |-> 1, size |-> 3]

\* the step is a call of startGame
restartStep ==
  \E n \in GameSizes : \E rnd \in GameRnd(n) \cup LateRnd(n) :
    startGame(n, << >>, rnd)

\* C31: a row that is celebrating stays the celebrating row until a step
\* adds it to lockedRows, unless the step is a restart: its celebration is
\* not abandoned and the row does not become swappable again before the lock.
C31_CelebrationEndsInLock ==
  [][(rowCleared # Null /\ rowCleared' # rowCleared /\ ~restartStep)
       => rowCleared \in lockedRows']_vars

\* row r reads its target word
readsTarget(r) ==
  r < size /\ rowString(board, size, r) = rowSecrets[r + 1]

\* C32: with a fair celebration timeout, in a session that is neither lost
\* nor restarted (moves does not fall below m), every unlocked row that reads
\* its target after m swaps and keeps reading it is eventually in
\* lockedRows, also the second of two rows completed by one swap; and a
\* board whose rows all read their targets, if no further swap is made,
\* eventually reaches won.
C32_SolvedRowsEventuallyLocked ==
  \A m \in 0..Len(LateScript) :
    /\ \A r \in 0..2 :
         (readsTarget(r) /\ r \notin lockedRows /\ moves = m /\ ~lost)
           ~> (r \in lockedRows \/ ~readsTarget(r) \/ lost \/ moves < m)
    /\ ((\A r \in 0..(size - 1) : readsTarget(r)) /\ moves = m /\ ~lost)
           ~> (won \/ lost \/ moves # m)
\* rows 1 and 2 were completed by one swap, row 1 has been locked since and
\* row 2, untouched, is now the celebrating row
C32_Witness ==
  /\ size = 3 /\ lockedRows = {1} /\ rowCleared = 2 /\ readsTarget(2)
  /\ ~readsTarget(0) /\ moves = 6 /\ ~lost

\* C33: the board holds size * size tiles whose ids are pairwise distinct,
\* and the (id, character) pairs on it are those laid at generation (the
\* tile of id r * size + c + 1 carries letter c of the target of row r),
\* after the generator's shuffles and after any sequence of swaps.
C33_TilesKeepIdAndChar ==
  /\ Len(board) = size * size
  /\ \A i \in 1..Len(board) : \A j \in 1..Len(board) :
       i # j => board[i].id # board[j].id
  /\ {board[i] : i \in 1..Len(board)}
       = {[id |-> r * size + c + 1, char |-> rowSecrets[r + 1][c + 1]] :
            r \in 0..(size - 1), c \in 0..(size - 1)}
\* a generated 3 x 3 board after four swaps, one row locked, not the solved
\* arrangement
C33_Witness ==
  /\ moves = 4 /\ size = 3 /\ Cardinality(lockedRows) = 1
  /\ board # layout(size, rowSecrets)

\* the cells of row r that hold letter ch
rowCellsWith(r, ch) ==
  {i \in cells : i \div size = r /\ charAt(i) = ch}

\* number of occurrences of ch in the target word of row r
targetCount(r, ch) ==
  Cardinality({k \in 1..Len(rowSecrets[r + 1]) : rowSecrets[r + 1][k] = ch})

\* C34: for every unlocked row r and every letter ch, the number of tiles of
\* row r that hold ch and are marked green or orange by computeMarks equals
\* the minimum of the number of tiles of row r that hold ch and the number
\* of occurrences of ch in the target word of row r.
C34_RowHintsMatchDemand ==
  probe.called =>
    \A r \in 0..(size - 1) : \A ch \in Letters :
      r \notin lockedRows =>
        Cardinality({i \in rowCellsWith(r, ch) : hintAt(i) \in {"g", "o"}})
          = Min(Cardinality(rowCellsWith(r, ch)), targetCount(r, ch))

\* C35: when every locked row reads its target word, computeMarks with the
\* locked set returns for every tile the hint that computeMarks returns with
\* the empty locked set.
C35_LockedSkipIsSound ==
  (probe.called /\ \A r \in lockedRows : readsTarget(r))
    => probe.marks = computeMarks(board, size, rowSecrets, {})
\* a row is locked and reads its target, and an open row holds an orange
\* tile
C35_Witness ==
  /\ probe.called /\ lockedRows # {} /\ \A r \in lockedRows : readsTarget(r)
  /\ \E i \in cells : hintAt(i) = "o"

\* C36: for every accepted swap, the ids newly credited as green belong to
\* the two tiles that were exchanged, so at most 2 green bonuses are credited
\* (at most 2 * GREEN_BONUS on top of the penalised score), and every tile
\* at another cell is green after the swap iff it was green before.
C36_SwapCreditsOnlyExchangedTiles ==
  [][moves' = moves + 1 =>
       \A before \in {marks} :
         \A after \in {computeMarks(board', size', rowSecrets', lockedRows')} :
           \A moved \in {{board[i].id : i \in {j \in 1..Len(board) :
                                                  board'[j] # board[j]}}} :
             /\ Cardinality(moved) = 2
             /\ (rewardedGreen' \ rewardedGreen) \subseteq moved
             /\ score' <= Max(0, score - MOVE_PENALTY) + 2 * GREEN_BONUS
             /\ \A id \in DOMAIN before :
                  id \notin moved => (before[id] = "g" <=> after[id] = "g")]_vars
\* the first swap of a session put both exchanged tiles on target: two ids
\* were credited at once
C36_Witness ==
  /\ moves = 1 /\ seconds = 0 /\ Cardinality(rewardedGreen) = 2
  /\ \A id \in rewardedGreen : marks[id] = "g"

\* C37: every puzzle makeCampaignBoard returns is solvable.  Swaps permute
\* the tiles and every permutation can be reached by legal swaps, so some
\* sequence of swaps makes every row read its target iff some arrangement of
\* the tiles does, that is iff the arrangement the tiles were laid in (tile
\* r * size + c + 1 on cell r * size + c) does.
C37_GeneratedPuzzleSolvable ==
  gen.pc = "done" =>
    \A r \in 0..(size - 1) :
      rowString(layout(size, rowSecrets), size, r) = rowSecrets[r + 1]

\* ======================================================================
\* The sliding variant (src/unnamed/part_000): one secret word in the top
\* row, filler tiles, one blank tile (id 0) that the player slides.
\* Its state: size, mode, secret, board, moves, running, won, guess.
\* secs and its interval, guessPath, hints, missLetters, hasGuessedOnce,
\* showIntro, spinning and theme are written by the handlers modelled here
\* but read by none of them: they are left out.
\* ======================================================================

\* WORDS of the variant (lines 32-37)
WordBank(sz) ==
  IF sz = 3 THEN << <<"C","A","T">>, <<"S","U","N">>, <<"M","A","P">>,
                    <<"B","O","X">>, <<"H","A","T">> >>
  ELSE IF sz = 4 THEN << <<"C","O","D","E">>, <<"G","A","M","E">>,
                         <<"P","L","A","Y">>, <<"W","O","R","D">>,
                         <<"M","A","T","H">> >>
  ELSE IF sz = 5 THEN << <<"A","P","P","L","E">>, <<"L","E","V","E","L">>,
                         <<"Q","U","E","S","T">>, <<"T","R","A","I","L">>,
                         <<"S","H","I","F","T">> >>
  ELSE IF sz = 6 THEN << <<"F","L","O","W","E","R">>, <<"P","U","Z","Z","L","E">>,
                         <<"B","I","N","A","R","Y">>, <<"M","A","R","K","E","T">>,
                         <<"B","R","I","D","G","E">> >>
  ELSE << repeatA(sz) >>

\* faulty variant of canSlideInSuper: sliding opens one letter early
canSlideInSuperOneEarly(guessLen, sz) == guessLen >= sz - 1

\* canSlideInSuper (lines 43-45)
canSlideInSuper(guessLen, sz) == guessLen >= sz

\* .replace(/[^A-Z]/g, "") on a string of characters
onlyLetters(w) == SelectSeq(w, LAMBDA ch : ch \in Letters)

\* appendGuess (lines 48-51); ch is a string, (ch || "") is ch
appendGuess(current, ch, sz) ==
  SubSeq(current \o onlyLetters(toUpperCase(ch)), 1,
         Min(sz, Len(current) + Len(onlyLetters(toUpperCase(ch)))))

\* backspaceGuess (lines 52-54)
backspaceGuess(current) ==
  IF Len(current) > 0 THEN SubSeq(current, 1, Len(current) - 1) ELSE << >>

\* pickWord of the variant (lines 56-61); rnd is the outcome of rand
pickBankWord(sz, preferred, rnd) ==
  IF validWord(toUpperCase(preferred), sz)
    THEN toUpperCase(preferred)
    ELSE WordBank(sz)[(rnd % Len(WordBank(sz))) + 1]

\* hasAnyTopRowGreen (lines 72-78)
hasAnyTopRowGreen(b, sz, sec) ==
  \E c \in 0..(sz - 1) : b[idx(0, c, sz) + 1].char = sec[c + 1]

\* makeSolvedBoard (lines 93-121).  fill[k + 1] is the letter drawn for the
\* filler of id size + 1 + k; pool.pop() hands the fillers out last first.
\* fillerCount is total - size - 1, so the fallback tile of line 114 is never built.
blankTile == [id |-> 0, char |-> ""]
makeSolvedBoard(sz, word, fill) ==
  [c \in 1..sz |-> [id |-> c, char |-> word[c]]]
    \o [j \in 1..(sz * sz - sz - 1) |->
          [id |-> sz + 1 + (sz * sz - sz - 1 - j),
           char |-> fill[sz * sz - sz - j]]]
    \o << blankTile >>

\* board.findIndex((t) => t && t.id === 0), -1 when there is none
blankIndex(b) ==
  IF \E i \in 1..Len(b) : b[i].id = 0
    THEN (CHOOSE i \in 1..Len(b) : b[i].id = 0 /\ \A j \in 1..(i - 1) : b[j].id # 0) - 1
    ELSE -1

\* neighborsOfBlank (lines 123-133): up, down, left, right
neighborsOfBlank(b, sz) ==
  IF blankIndex(b) < 0 THEN << >>
  ELSE (IF rc(blankIndex(b), sz).r > 0
          THEN << blankIndex(b) - sz >> ELSE << >>)
    \o (IF rc(blankIndex(b), sz).r < sz - 1
          THEN << blankIndex(b) + sz >> ELSE << >>)
    \o (IF rc(blankIndex(b), sz).c > 0
          THEN << blankIndex(b) - 1 >> ELSE << >>)
    \o (IF rc(blankIndex(b), sz).c < sz - 1
          THEN << blankIndex(b) + 1 >> ELSE << >>)

\* swap (lines 135-139)
swap(b, i, j) == [b EXCEPT ![i + 1] = b[j + 1], ![j + 1] = b[i + 1]]

\* the candidates of one iteration of shuffleByRandomMoves (line 146)
nbsOf(b, sz, prevBlank) ==
  SelectSeq(neighborsOfBlank(b, sz), LAMBDA i : i # prevBlank)

\* topRowString (lines 155-162); the blank's char is the empty string
topRowString(b, sz) ==
  SelectSeq([c \in 1..sz |-> b[idx(0, c - 1, sz) + 1].char], LAMBDA ch : ch # "")

\* goalMet (lines 470-473)
goalMet(b, sz, sec) == topRowString(b, sz) = sec

\* faulty variant of isAdj: a diagonal neighbour counts as adjacent
isAdjDiagonal(b, i, sz) ==
  /\ b # i
  /\ rc(b, sz).r - rc(i, sz).r \in {-1, 0, 1}
  /\ rc(b, sz).c - rc(i, sz).c \in {-1, 0, 1}

\* isAdj of onTileClick (lines 458-460): Manhattan distance 1
Abs(x) == IF x < 0 THEN -x ELSE x
isAdj(b, i, sz) ==
  Abs(rc(b, sz).r - rc(i, sz).r) + Abs(rc(b, sz).c - rc(i, sz).c) = 1

\* One iteration of the for loop of shuffleByRandomMoves (lines 143-150) on
\* its locals st = [board, prevBlank].  The draw of rand(nbs.length) is rnd
\* when rnd < nbs.length, else nbs.length - 1.  Where the source returns
\* (lines 145, 147) the locals stay as they are, and so they do in every
\* later iteration.
slideStep(st, sz, rnd) ==
  IF blankIndex(st.board) < 0 \/ nbsOf(st.board, sz, st.prevBlank) = << >>
    THEN st
    ELSE [board |-> swap(st.board, blankIndex(st.board),
                         nbsOf(st.board, sz, st.prevBlank)
                           [Min(rnd, Len(nbsOf(st.board, sz, st.prevBlank)) - 1) + 1]),
          prevBlank |-> blankIndex(st.board)]

\* n iterations of that loop, the first half of them and then the rest
RECURSIVE slideLoop(_, _, _, _)
slideLoop(st, sz, n, rnd) ==
  IF n <= 0 \/ blankIndex(st.board) < 0 THEN st
  ELSE IF n = 1 THEN slideStep(st, sz, rnd)
  ELSE slideLoop(slideLoop(st, sz, n \div 2, rnd), sz, n - (n \div 2), rnd)

\* shuffleByRandomMoves (lines 141-152)
shuffleByRandomMoves(b, sz, steps, rnd) ==
  slideLoop([board |-> b, prevBlank |-> -1], sz, steps, rnd).board

\* One iteration of the while loop of ensureNoInitialTopRowGreens (lines
\* 85-89); rnd.k is the outcome of rand(size * size), rnd.pass the draws of
\* the pass.  Once the test of line 85 fails on the board it fails in every
\* later iteration.
ensureStep(b, sz, sec, rnd) ==
  IF hasAnyTopRowGreen(b, sz, sec)
    THEN shuffleByRandomMoves(b, sz, Max(sz * 2, rnd.k), rnd.pass)
    ELSE b

\* n iterations of that loop, the first half of them and then the rest
RECURSIVE ensureLoop(_, _, _, _, _)
ensureLoop(b, sz, sec, n, rnd) ==
  IF n <= 0 \/ ~hasAnyTopRowGreen(b, sz, sec) THEN b
  ELSE IF n = 1 THEN ensureStep(b, sz, sec, rnd)
  ELSE ensureLoop(ensureLoop(b, sz, sec, n \div 2, rnd), sz, sec,
                  n - (n \div 2), rnd)

\* ensureNoInitialTopRowGreens (lines 82-90): tries < maxTries bounds the loop
maxTries == 200
ensureNoInitialTopRowGreens(b, sz, sec, rnd) == ensureLoop(b, sz, sec, maxTries, rnd)

\* startGame, lines 375-377: the extra shuffle of easy mode
easyShuffle(b, sz, m, word, rnd) ==
  IF m = "easy" /\ topRowString(b, sz) = word
    THEN shuffleByRandomMoves(b, sz, 30, rnd.base)
    ELSE b

\* startGame, lines 373-381: the board handed to setBoard
startBoard(sz, m, word, fill, rnd) ==
  IF m = "super"
    THEN ensureNoInitialTopRowGreens(
           shuffleByRandomMoves(makeSolvedBoard(sz, word, fill), sz,
                                Max(50, sz * sz * 20), rnd.base),
           sz, word, rnd)
    ELSE easyShuffle(
           shuffleByRandomMoves(makeSolvedBoard(sz, word, fill), sz,
                                Max(50, sz * sz * 20), rnd.base),
           sz, m, word, rnd)

\* ---------- Bounds and explored outcomes of the variant
MaxSlides == 3         \* slides per game explored by SpecSlide
SlideSize == 3         \* initial.size of the explored component
\* the outcomes of rand explored for one startGame: rnd.word in pickWord,
\* rnd.base for every draw of the shuffles of lines 374 and 376, rnd.pass for
\* every draw of the passes of ensureNoInitialTopRowGreens, rnd.k at line 87
SlideRnd ==
  [word : {0}, base : {0, 1}, pass : {0, 1}, k : {SlideSize * SlideSize - 1}]
\* the letters drawn for the fillers (line 102)
SlideFills == { <<"Z","Z","Z","Z","Z">>, <<"T","A","C","Z","Z">> }
\* initial.word: none, or a word typed in lower case
SlideWords == { << >>, <<"s","u","n">> }
SlideModes == {"easy", "hard", "super"}
\* the cells the modelled player clicks
SlideCells(sz) == {1, sz + 1, sz + 2, 2 * sz + 1, 2 * sz + 2}

\* startBoard for the explored outcomes, tabulated (key: << mode, word, fill, rnd >>)
startBoards ==
  [key \in SlideModes
            \X {pickBankWord(SlideSize, w, 0) : w \in SlideWords}
            \X SlideFills \X SlideRnd |->
     startBoard(SlideSize, key[1], key[2], key[3], key[4])] @@ << >>

CampaignAbsent ==
  /\ rowSecrets = << >>
  /\ lockedRows = {}
  /\ seconds = 0
  /\ lost = FALSE
  /\ rowCleared = Null
  /\ selectedIndex = Null
  /\ score = SCORE_START
  /\ rewardedGreen = {}
  /\ interval = "none"
  /\ greenCredits = << >>
  /\ lostGreen = {}
  /\ gen = GenIdle
  /\ probe = NoProbe
  /\ timeout = NoTimeout
  /\ carried = NoCarried

CampaignUnchanged ==
  UNCHANGED << rowSecrets, lockedRows, seconds, lost, rowCleared, selectedIndex,
               score, rewardedGreen, interval, greenCredits, lostGreen, gen,
               probe, timeout, carried >>

\* startGame (lines 372-394) and the win effect (lines 475-481) on the new
\* state, for the current size and the given mode
startGameSlide(m, desiredWord, fill, rnd) ==
  \E word \in {pickBankWord(size, desiredWord, rnd.word)} :
    \E b \in {startBoards[<< m, word, fill, rnd >>]} :
      /\ secret' = word
      /\ board' = b
      /\ moves' = 0
      /\ won' = goalMet(b, size, word)
      /\ running' = FALSE
      /\ guess' = << >>
      /\ size' = size
      /\ CampaignUnchanged

\* The state after the mount effect (lines 397-400) has run
\* startGame(initial?.word) on the useState initialisers (lines 346-359)
InitSlide ==
  \E m \in SlideModes, w \in SlideWords, fill \in SlideFills, rnd \in SlideRnd :
    \E word \in {pickBankWord(SlideSize, w, rnd.word)} :
      \E b \in {startBoards[<< m, word, fill, rnd >>]} :
        /\ size = SlideSize
        /\ mode = m
        /\ secret = word
        /\ board = b
        /\ moves = 0
        /\ running = FALSE
        /\ won = goalMet(b, SlideSize, word)
        /\ guess = << >>
        /\ CampaignAbsent

\* onTileClick (lines 430-468) and the win effect (lines 475-481)
onTileClick(i) ==
  /\ IF won \/ Len(board) # size * size
       THEN UNCHANGED << board, moves, running, won, guess >>
     ELSE IF mode = "super" /\ ~canSlideInSuper(Len(guess), size)
       THEN /\ guess' = IF board[i + 1].id = 0
                          THEN guess
                          ELSE appendGuess(guess, << board[i + 1].char >>, size)
            /\ UNCHANGED << board, moves, running, won >>
     ELSE IF blankIndex(board) >= 0 /\ isAdj(blankIndex(board), i, size)
       THEN /\ board' = swap(board, blankIndex(board), i)
            /\ moves' = moves + 1
            /\ won' = goalMet(swap(board, blankIndex(board), i), size, secret)
            /\ running' = ~goalMet(swap(board, blankIndex(board), i), size, secret)
            /\ UNCHANGED guess
       ELSE UNCHANGED << board, moves, running, won, guess >>
  /\ UNCHANGED << size, mode, secret >>
  /\ CampaignUnchanged

\* the Backspace key and the backspace button (lines 831, 836)
Backspace ==
  /\ guess' = backspaceGuess(guess)
  /\ UNCHANGED << size, mode, secret, board, moves, running, won >>
  /\ CampaignUnchanged

\* the Clear button (line 837)
ClearGuess ==
  /\ guess' = << >>
  /\ UNCHANGED << size, mode, secret, board, moves, running, won >>
  /\ CampaignUnchanged

\* the mode selector (line 728): setMode, then the effect of lines 397-400
\* runs startGame(initial?.word) with the new mode
SetMode ==
  \E m \in SlideModes \ {mode}, w \in SlideWords, fill \in SlideFills,
     rnd \in SlideRnd :
    /\ mode' = m
    /\ startGameSlide(m, w, fill, rnd)

\* the buttons that call startGame() or startGame(secret) (lines 738-900)
NewGame ==
  \E w \in {<< >>, secret}, fill \in SlideFills, rnd \in SlideRnd :
    /\ mode' = mode
    /\ startGameSlide(mode, w, fill, rnd)

SlideClick == \E i \in SlideCells(size) : moves < MaxSlides /\ onTileClick(i)

NextSlide == SlideClick \/ Backspace \/ ClearGuess \/ SetMode \/ NewGame

SpecSlide == InitSlide /\ [][NextSlide]_vars

\* C38 (sliding variant, super mode): canSlideInSuper(guessLen, size) is true
\* exactly when guessLen >= size; while the entered guess is shorter than
\* size, a tile click changes neither the board nor the move counter, it
\* leaves the guess as it is (the blank) or appends the clicked tile's
\* letter; and the guess is never longer than size.
C38_SuperGatesSliding ==
  [][/\ \A g \in 0..(size + 1), n \in {size, size + 1} :
          canSlideInSuper(g, n) <=> g >= n
     /\ Len(guess) <= size
     /\ Len(guess') <= size'
     /\ \A i \in SlideCells(size) :
          (mode = "super" /\ Len(guess) < size /\ onTileClick(i))
            => /\ board' = board
               /\ moves' = moves
               /\ guess' \in {guess, guess \o << board[i + 1].char >>}]_vars

\* two letters of three entered by clicks, the board still as startGame left it
C38_Witness ==
  /\ mode = "super"
  /\ ~won
  /\ Len(guess) = size - 1
  /\ moves = 0
  /\ \E i \in SlideCells(size) : guess[1] = board[i + 1].char

\* the cells (0-based) of b that hold a blank tile
blankCells(b) == {k \in 0..(Len(b) - 1) : b[k + 1].id = 0 /\ b[k + 1].char = ""}
\* cells a and b lie side by side in a row or one above the other in a column
orthogonal(a, b, sz) ==
  \/ a \div sz = b \div sz /\ a - b \in {-1, 1}
  \/ a % sz = b % sz /\ a - b \in {-sz, sz}

\* C39 (sliding variant): after board construction, any shuffle and any
\* sequence of tile clicks the board holds size * size tiles of which exactly
\* one is blank; a click that changes the board exchanges the blank with the
\* clicked tile, which is orthogonally adjacent to the blank, and changes no
\* other cell; a click on a tile that is not adjacent to the blank changes
\* neither the board nor the move counter.
C39_BlankSlidesToAdjacentCell ==
  [][/\ Len(board) = size * size
     /\ Len(board') = size' * size'
     /\ Cardinality(blankCells(board)) = 1
     /\ Cardinality(blankCells(board')) = 1
     /\ \A i \in SlideCells(size) : \A b \in blankCells(board) :
          onTileClick(i) =>
            /\ board' # board =>
                 /\ orthogonal(b, i, size)
                 /\ board'[i + 1] = board[b + 1]
                 /\ board'[b + 1] = board[i + 1]
                 /\ \A k \in 1..Len(board) :
                      k \notin {i + 1, b + 1} => board'[k] = board[k]
            /\ ~orthogonal(b, i, size) => board' = board /\ moves' = moves]_vars

\* slides have taken the blank from the bottom row into the top row
C39_Witness ==
  /\ moves = 3
  /\ ~won
  /\ blankCells(board) = {1}

\* C40 (sliding variant, super mode): after a game start (the shuffle followed
\* by ensureNoInitialTopRowGreens with its bound of 200 tries), and before the
\* first slide, no top-row cell holds the secret word's letter for its
\* column, whatever the random moves were.
C40_NoTopRowGreenAfterSuperStart ==
  (mode = "super" /\ moves = 0)
    => \A c \in 0..(size - 1) : board[idx(0, c, size) + 1].char # secret[c + 1]

====
